---- MODULE Spec2Model ----
(***************************************************************************)
(* rust-jmap-webmail: the JMAP client (discovery with manually followed,   *)
(* auth-preserving redirects, the mail operations), the redirect resolver, *)
(* the session store and the web layer that uses them.                     *)
(*                                                                         *)
(* Strings are sequences of one-character strings, so that starts_with,    *)
(* find, rfind and slicing are computed as str computes them.              *)
(***************************************************************************)
EXTENDS Integers, Sequences, FiniteSets, TLC

VARIABLES
    \* ---- resolve_redirect applied to drawn inputs
    rPc,          \* "call" before resolve_redirect ran, "done" after
    rScheme,      \* the parts the base URL was built from
    rHost,
    rPath,
    rLocation,    \* the Location header value
    rResolved,    \* what resolve_redirect returned
    \* ---- one JmapClient::discover call
    dPc,          \* "idle", "fetch" (in the redirect loop), "parse", "done"
    dUser,        \* username passed to discover
    dPass,        \* password passed to discover
    dAuth,        \* auth, built at the start of discover
    dI,           \* the loop variable i of fetch_with_auth_following_redirects
    dUrl,         \* current_url
    dBody,        \* response_text handed back by the fetch
    dResult,      \* what discover returned: kind "none" while it runs
    dClient,      \* the JmapClient of an Ok result: <<>> or <<client>>
    dReqs,        \* the GET requests issued so far, in order (the wire)
    dResps,       \* the response to each of them, in order
    dParsed,      \* how often the body was handed to the JSON parser
    \* ---- the SessionStore and the threads calling it
    sessions,     \* the HashMap<Uuid, Session>
    lockWriter,   \* the thread holding the RwLock for writing: <<>> or <<th>>
    lockReaders,  \* the threads holding it for reading
    tPc,          \* where each thread is in its call
    tCall,        \* the call each thread is in
    tRet,         \* what the call returned (while tPc is "ret")
    generated,    \* the values Uuid::now_v7 has returned
    returned,     \* the tokens create has returned
    createdWith,  \* token -> the Session that was passed to create with it
    removeReturned, \* the tokens for which a remove has returned
    calls,        \* how many store calls have been started
    \* ---- the web layer: main's loop and the handlers
    wPc,          \* "accept", "login" (in discover), "mail" (in a mail call), "aborted"
                  \* and "routed" (past route's check, before the handler)
    wReq,         \* the request being handled, or handled last
    wGate,        \* what route decided for it: "open", "accepted", "rejected"
    wResp,        \* the response to it (kind "none" until it is sent)
    wClient,      \* the client get_client built for it: <<>> or <<client>>
    wHandled,     \* how many requests were taken from incoming_requests
    wLoginTokens, \* the tokens handed out by successful logins
    wLoginClient, \* token -> the client discover returned at its login
    wLoggedOut,   \* the tokens whose logout has completed
    \* ---- a mail operation of JmapClient, and the handler calling it
    mPc,          \* "idle", "op" (in an operation), "returned", "done"
    mHandler,     \* the handler that runs, "none" for a direct call
    mOp,          \* the operation in progress or last run
    mPosts,       \* the POST requests sent so far, in order (the wire)
    mResps,       \* the response to each of them, in order
    mResult,      \* what the last operation returned
    mPage         \* the fragment the handler responded with

resolveVars == <<rPc, rScheme, rHost, rPath, rLocation, rResolved>>
discoverVars == <<dPc, dUser, dPass, dAuth, dI, dUrl, dBody, dResult, dClient,
                  dReqs, dResps, dParsed>>
storeVars == <<sessions, lockWriter, lockReaders, tPc, tCall, tRet, generated,
               returned, createdWith, removeReturned, calls>>
webVars == <<wPc, wReq, wGate, wResp, wClient, wHandled, wLoginTokens, wLoginClient, wLoggedOut>>
mailVars == <<mPc, mHandler, mOp, mPosts, mResps, mResult, mPage>>
vars == <<resolveVars, discoverVars, storeVars, webVars, mailVars>>
otherThanResolve == <<discoverVars, storeVars, webVars, mailVars>>
otherThanDiscover == <<resolveVars, storeVars, webVars, mailVars>>
otherThanStore == <<resolveVars, discoverVars, webVars, mailVars>>
otherThanMail == <<resolveVars, discoverVars, storeVars, webVars>>

(***************************************************************************)
(* Bounds.                                                                 *)
(***************************************************************************)
MaxPathLen == 4
MaxLocLen == 3
NumThreads == 2
MaxTokens == 2
MaxCalls == 4
MaxRequests == 4
MaxSharedRequests == 2   \* requests taken while other threads use the store

(***************************************************************************)
(* str operations (0-based byte offsets, as in Rust).                      *)
(***************************************************************************)
starts_with(s, pat) == Len(s) >= Len(pat) /\ SubSeq(s, 1, Len(pat)) = pat

OccursAt(s, pat, i) == i + Len(pat) <= Len(s) /\ SubSeq(s, i + 1, i + Len(pat)) = pat

\* str::find: offset of the first match, -1 for None.
find(s, pat) ==
    IF \E i \in 0..Len(s) : OccursAt(s, pat, i)
    THEN CHOOSE i \in 0..Len(s) :
             OccursAt(s, pat, i) /\ \A j \in 0..(i - 1) : ~OccursAt(s, pat, j)
    ELSE -1

\* str::rfind: offset of the last match, -1 for None.
rfind(s, pat) ==
    IF \E i \in 0..Len(s) : OccursAt(s, pat, i)
    THEN CHOOSE i \in 0..Len(s) :
             OccursAt(s, pat, i) /\ \A j \in (i + 1)..Len(s) : ~OccursAt(s, pat, j)
    ELSE -1

\* &s[from..to]
Slice(s, from, to) == SubSeq(s, from + 1, to)

(***************************************************************************)
(* Text whose content does not matter, only its bytes: a sequence of runs  *)
(* of n characters of w bytes each (UTF-8: w is 1 to 4), no run empty.     *)
(* A String read from a response is valid UTF-8 and can hold any of them.  *)
(***************************************************************************)
Run(w, n) == [w |-> w, n |-> n]
Ascii(n) == IF n = 0 THEN <<>> ELSE <<Run(1, n)>>

\* str::len: the length in bytes.
RECURSIVE ByteLen(_)
ByteLen(s) == IF s = <<>> THEN 0 ELSE Head(s).w * Head(s).n + ByteLen(Tail(s))

\* str::is_char_boundary
RECURSIVE is_char_boundary(_, _)
is_char_boundary(s, index) ==
    IF index = 0 THEN TRUE
    ELSE IF s = <<>> THEN FALSE
    ELSE IF index < Head(s).w * Head(s).n THEN index % Head(s).w = 0
    ELSE is_char_boundary(Tail(s), index - Head(s).w * Head(s).n)

\* &s[..index] for an index that is a char boundary.
RECURSIVE BytePrefix(_, _)
BytePrefix(s, index) ==
    IF index = 0 \/ s = <<>> THEN <<>>
    ELSE IF index >= Head(s).w * Head(s).n
    THEN <<Head(s)>> \o BytePrefix(Tail(s), index - Head(s).w * Head(s).n)
    ELSE <<Run(Head(s).w, index \div Head(s).w)>>

\* truncate_str: s if it has at most max_len bytes, else &s[..max_len],
\* which panics when max_len is inside a character.
truncate_str(s, max_len) ==
    IF ByteLen(s) <= max_len THEN [panic |-> FALSE, text |-> s]
    ELSE IF is_char_boundary(s, max_len)
    THEN [panic |-> FALSE, text |-> BytePrefix(s, max_len)]
    ELSE [panic |-> TRUE, text |-> <<>>]

HttpPrefix == <<"h", "t", "t", "p", ":", "/", "/">>
HttpsPrefix == <<"h", "t", "t", "p", "s", ":", "/", "/">>
SchemeSep == <<":", "/", "/">>
SlashStr == <<"/">>

(***************************************************************************)
(* JmapClient::resolve_redirect                                            *)
(***************************************************************************)
\* A slip: the relative branch cuts the base at its first '/' (find) instead
\* of its last (rfind).
resolve_redirect_first_slash(base_url, location) ==
    IF starts_with(location, HttpPrefix) \/ starts_with(location, HttpsPrefix)
    THEN location
    ELSE IF starts_with(location, SlashStr)
    THEN LET idx == find(base_url, SchemeSep) IN
         IF idx # -1
         THEN LET after_scheme == Slice(base_url, idx + 3, Len(base_url))
                  path_start == find(after_scheme, SlashStr)
              IN  IF path_start # -1
                  THEN Slice(base_url, 0, idx + 3 + path_start) \o location
                  ELSE base_url \o location
         ELSE location
    ELSE LET last_slash == find(base_url, SlashStr) IN
         IF last_slash # -1
         THEN Slice(base_url, 0, last_slash) \o SlashStr \o location
         ELSE location

resolve_redirect(base_url, location) ==
    IF starts_with(location, HttpPrefix) \/ starts_with(location, HttpsPrefix)
    THEN location
    ELSE IF starts_with(location, SlashStr)
    THEN LET idx == find(base_url, SchemeSep) IN
         IF idx # -1
         THEN LET after_scheme == Slice(base_url, idx + 3, Len(base_url))
                  path_start == find(after_scheme, SlashStr)
              IN  IF path_start # -1
                  THEN Slice(base_url, 0, idx + 3 + path_start) \o location
                  ELSE base_url \o location
         ELSE location
    ELSE LET last_slash == rfind(base_url, SlashStr) IN
         IF last_slash # -1
         THEN Slice(base_url, 0, last_slash) \o SlashStr \o location
         ELSE location

\* No resolve_redirect call is being examined.
ResolveIdle ==
    /\ rPc = "done"
    /\ rScheme = <<>>
    /\ rHost = <<>>
    /\ rPath = <<>>
    /\ rLocation = <<>>
    /\ rResolved = <<>>

(***************************************************************************)
(* JmapClient::auth_header: "Basic " followed by the standard base64 of    *)
(* "username:password".                                                    *)
(***************************************************************************)
\* The byte of each character credentials are drawn from.
Ord ==
    [c \in {"a", "b", "l", "o", "p", "w", "x", ":"} |->
        CASE c = "a" -> 97 [] c = "b" -> 98 [] c = "l" -> 108 [] c = "o" -> 111
          [] c = "p" -> 112 [] c = "w" -> 119 [] c = "x" -> 120 [] c = ":" -> 58]

B64Alphabet ==
    <<"A", "B", "C", "D", "E", "F", "G", "H", "I", "J", "K", "L", "M", "N", "O", "P",
      "Q", "R", "S", "T", "U", "V", "W", "X", "Y", "Z", "a", "b", "c", "d", "e", "f",
      "g", "h", "i", "j", "k", "l", "m", "n", "o", "p", "q", "r", "s", "t", "u", "v",
      "w", "x", "y", "z", "0", "1", "2", "3", "4", "5", "6", "7", "8", "9", "+", "/">>

Sextet(n) == B64Alphabet[(n % 64) + 1]

RECURSIVE Base64Encode(_)
Base64Encode(bytes) ==
    IF Len(bytes) = 0 THEN <<>>
    ELSE IF Len(bytes) = 1
    THEN LET n == bytes[1] * 16 IN <<Sextet(n \div 64), Sextet(n), "=", "=">>
    ELSE IF Len(bytes) = 2
    THEN LET n == (bytes[1] * 256 + bytes[2]) * 4 IN
         <<Sextet(n \div 4096), Sextet(n \div 64), Sextet(n), "=">>
    ELSE LET n == bytes[1] * 65536 + bytes[2] * 256 + bytes[3] IN
         <<Sextet(n \div 262144), Sextet(n \div 4096), Sextet(n \div 64), Sextet(n)>>
             \o Base64Encode(SubSeq(bytes, 4, Len(bytes)))

BasicPrefix == <<"B", "a", "s", "i", "c", " ">>

auth_header(username, password) ==
    LET credentials == username \o <<":">> \o password
        encoded == Base64Encode([k \in 1..Len(credentials) |-> Ord[credentials[k]]])
    IN  BasicPrefix \o encoded

(***************************************************************************)
(* The mail server as discovery sees it: what one GET can be answered with.*)
(***************************************************************************)
\* Option<T>: <<>> is None, <<v>> is Some(v).
None == <<>>
Some(v) == <<v>>

\* state.config.jmap.well_known_url: https://m/w/j
WellKnownUrl == <<"h", "t", "t", "p", "s", ":", "/", "/", "m", "/", "w", "/", "j">>

MailCapability == "urn:ietf:params:jmap:mail"
CoreCapability == "urn:ietf:params:jmap:core"

\* Response bodies: no bytes, bytes that cannot be read into a String, text
\* that is not a session document, and session documents. text is the
\* String into_string gives, as bytes.
Body(kind, apiUrl, primaryAccounts, accounts, text) ==
    [kind |-> kind, apiUrl |-> apiUrl, primaryAccounts |-> primaryAccounts,
     accounts |-> accounts, text |-> text]
EmptyBody == Body("empty", <<>>, <<>>, <<>>, <<>>)
UnreadableBody == Body("unreadable", <<>>, <<>>, <<>>, <<>>)
GarbageBody == Body("garbage", <<>>, <<>>, <<>>, Ascii(9))
\* Text that is no session document: longer than either excerpt, all ASCII;
\* and with a two-byte character across byte 200, or across byte 500.
LongBody == Body("garbage", <<>>, <<>>, <<>>, Ascii(600))
SplitAt200Body == Body("garbage", <<>>, <<>>, <<>>, <<Run(1, 199), Run(2, 10)>>)
SplitAt500Body == Body("garbage", <<>>, <<>>, <<>>, <<Run(1, 499), Run(2, 10)>>)
ApiUrlA == <<"h", "t", "t", "p", "s", ":", "/", "/", "j", "/", "a">>
\* primaryAccounts names the mail account; accounts lists another one first.
SessionPrimary ==
    Body("session", ApiUrlA,
         <<[cap |-> CoreCapability, id |-> "u0"], [cap |-> MailCapability, id |-> "u1"]>>,
         <<[id |-> "u2", caps |-> {MailCapability}], [id |-> "u1", caps |-> {MailCapability}]>>,
         Ascii(160))
\* primaryAccounts has no mail entry; the second account has the capability.
SessionScan ==
    Body("session", ApiUrlA,
         <<[cap |-> CoreCapability, id |-> "u0"]>>,
         <<[id |-> "u0", caps |-> {CoreCapability}],
           [id |-> "u3", caps |-> {CoreCapability, MailCapability}]>>,
         Ascii(150))
\* No mail capability anywhere.
SessionNoMail ==
    Body("session", ApiUrlA,
         <<[cap |-> CoreCapability, id |-> "u0"]>>,
         <<[id |-> "u0", caps |-> {CoreCapability}]>>,
         Ascii(110))
\* The same with an account name in another script, across byte 500.
SessionNoMailSplit ==
    Body("session", ApiUrlA,
         <<[cap |-> CoreCapability, id |-> "u0"]>>,
         <<[id |-> "u0", caps |-> {CoreCapability}]>>,
         <<Run(1, 499), Run(3, 4), Run(1, 20)>>)
SessionBodies == {SessionPrimary, SessionScan, SessionNoMail, SessionNoMailSplit}

\* Location values the server redirects to: another host, an absolute path,
\* a relative path.
RedirectTargets ==
    {<<"h", "t", "t", "p", "s", ":", "/", "/", "j", "/", "s">>, <<"/", "s">>, <<"s">>}

\* What agent.get(..).call() returns. wrap "Ok" is Ok(resp), "Status" is
\* Err(ureq::Error::Status(code, resp)), "Transport" any other Err(e). A 2xx
\* is Ok, a 4xx or 5xx is Err(Status), a 3xx not followed is either.
Response(wrap, status, location, body) ==
    [wrap |-> wrap, status |-> status, location |-> location, body |-> body]
TransportFailure == Response("Transport", 0, None, EmptyBody)
Responses ==
    {Response("Ok", 200, None, b) :
        b \in {EmptyBody, UnreadableBody, GarbageBody, LongBody, SplitAt500Body}
              \cup SessionBodies}
    \cup {Response("Ok", 204, None, EmptyBody)}
    \cup {Response("Ok", 302, l, EmptyBody) : l \in {None} \cup {Some(t) : t \in RedirectTargets}}
    \cup {Response("Status", 301, l, EmptyBody) : l \in {None} \cup {Some(t) : t \in RedirectTargets}}
    \cup {Response("Status", st, None, b) :
            st \in {401, 404, 500}, b \in {EmptyBody, UnreadableBody, GarbageBody}}
    \cup {Response("Status", 500, None, b) : b \in {LongBody, SplitAt200Body}}
    \cup {TransportFailure}

(***************************************************************************)
(* JmapError and the results of discover.                                  *)
(***************************************************************************)
\* msg is the fixed part of the message, code the status code formatted
\* into it, excerpt the piece of the response body formatted into it.
JmapError(kind, msg, code) == [kind |-> kind, msg |-> msg, code |-> code, excerpt |-> <<>>]
WithExcerpt(e, text) == [e EXCEPT !.excerpt = text]
NoResult == JmapError("none", "", 0)
OkResult == JmapError("Ok", "", 0)
\* No JmapError: the thread panicked and nothing is returned.
Panicked == JmapError("panic", "byte index is not a char boundary", 0)

\* The lengths the error messages cut a response body to.
ErrorExcerptLen == 200
SessionExcerptLen == 500

\* max_redirects, as discover passes it.
MaxRedirects == 5

(***************************************************************************)
(* JmapClient::fetch_with_auth_following_redirects                         *)
(***************************************************************************)
\* A slip: the Authorization header is sent only to the host of the
\* well-known URL (what a generic HTTP client does on a cross-origin redirect).
GetRequestSameOriginAuth(url, auth) ==
    [url |-> url,
     auth |-> IF starts_with(url, SubSeq(WellKnownUrl, 1, 10)) THEN Some(auth) ELSE None]

\* agent.get(&current_url).set("Authorization", auth)
GetRequest(url, auth) == [url |-> url, auth |-> Some(auth)]

Continue(url) == [act |-> "continue", url |-> url, err |-> NoResult]
ReturnOk(url) == [act |-> "ok", url |-> url, err |-> NoResult]
ReturnErr(url, e) == [act |-> "err", url |-> url, err |-> e]
Panic(url) == [act |-> "panic", url |-> url, err |-> Panicked]

\* A slip: every Location is resolved against the URL discovery started
\* at instead of the URL of the request it answers.
RedirectArmResolvesAgainstFirstUrl(current_url, status, location) ==
    IF location # None
    THEN Continue(resolve_redirect(WellKnownUrl, location[1]))
    ELSE ReturnErr(current_url,
             JmapError("Http", "Redirect without Location header", status))

\* A slip: a 3xx without a Location header is asked for again at the same
\* URL instead of ending the fetch.
RedirectArmRetriesWithoutLocation(current_url, status, location) ==
    IF location # None
    THEN Continue(resolve_redirect(current_url, location[1]))
    ELSE Continue(current_url)

\* A 3xx response, whether ureq hands it over as Ok(resp) or as
\* Err(Status(code, resp)): follow the Location header or fail.
RedirectArm(current_url, status, location) ==
    IF location # None
    THEN Continue(resolve_redirect(current_url, location[1]))
    ELSE ReturnErr(current_url,
             JmapError("Http", "Redirect without Location header", status))

\* A slip: an empty body is not checked for and is returned as a success.
SuccessArmNoEmptyCheck(current_url, status, body) ==
    IF body.kind = "unreadable"
    THEN ReturnErr(current_url, JmapError("Parse", "Failed to read response", 0))
    ELSE ReturnOk(current_url)

\* Ok(resp) that is no redirect: read the body, refuse an empty one.
SuccessArm(current_url, status, body) ==
    IF body.kind = "unreadable"
    THEN ReturnErr(current_url, JmapError("Parse", "Failed to read response", 0))
    ELSE IF body.kind = "empty"
    THEN ReturnErr(current_url,
             JmapError("Http", "Server returned empty response", status))
    ELSE ReturnOk(current_url)

\* A slip: a 401 is retried against the same URL instead of ending the fetch.
StatusErrorArmRetries401(current_url, code, body) ==
    IF code = 401
    THEN Continue(current_url)
    ELSE ReturnErr(current_url, JmapError("Http", "HTTP error", code))

\* Err(Status(code, resp)) that is no redirect: 401 is the authentication
\* failure, any other code an HTTP error carrying the code and the body cut
\* to 200 bytes (a body that cannot be read counts as empty).
StatusErrorArm(current_url, code, body) ==
    IF code = 401
    THEN ReturnErr(current_url,
             JmapError("Http", "Authentication failed (401 Unauthorized)", 0))
    ELSE IF body.text = <<>>
    THEN ReturnErr(current_url, JmapError("Http", "HTTP error", code))
    ELSE IF truncate_str(body.text, ErrorExcerptLen).panic
    THEN Panic(current_url)
    ELSE ReturnErr(current_url,
             WithExcerpt(JmapError("Http", "HTTP error", code),
                         truncate_str(body.text, ErrorExcerptLen).text))

\* The match on the response of one request (the body of the for loop).
MatchResponse(current_url, resp) ==
    IF resp.wrap = "Ok"
    THEN IF resp.status >= 300 /\ resp.status < 400
         THEN RedirectArm(current_url, resp.status, resp.location)
         ELSE SuccessArm(current_url, resp.status, resp.body)
    ELSE IF resp.wrap = "Status" /\ resp.status >= 300 /\ resp.status < 400
    THEN RedirectArm(current_url, resp.status, resp.location)
    ELSE IF resp.wrap = "Status"
    THEN StatusErrorArm(current_url, resp.status, resp.body)
    ELSE ReturnErr(current_url, JmapError("Http", "Connection error", 0))

\* A slip: the loop runs once more than max_redirects (0..=max_redirects).
LoopContinuesInclusive(i, max_redirects) == i <= max_redirects

\* for i in 0..max_redirects
LoopContinues(i, max_redirects) == i < max_redirects

(***************************************************************************)
(* JmapClient::discover                                                    *)
(***************************************************************************)
\* A slip: the accounts are scanned first, primaryAccounts is the fallback.
mail_account_id_accounts_first(session) ==
    LET primary == SelectSeq(session.primaryAccounts, LAMBDA e : e.cap = MailCapability)
        capable == SelectSeq(session.accounts, LAMBDA a : MailCapability \in a.caps)
    IN  IF capable # <<>> THEN Some(capable[1].id)
        ELSE IF primary # <<>> THEN Some(primary[1].id)
        ELSE None

\* JmapSession::mail_account_id: the primaryAccounts entry of the mail
\* capability, else the first account that has the capability.
mail_account_id(session) ==
    LET primary == SelectSeq(session.primaryAccounts, LAMBDA e : e.cap = MailCapability)
        capable == SelectSeq(session.accounts, LAMBDA a : MailCapability \in a.caps)
    IN  IF primary # <<>> THEN Some(primary[1].id)
        ELSE IF capable # <<>> THEN Some(capable[1].id)
        ELSE None

JmapClient(username, password, api_url, account_id) ==
    [username |-> username, password |-> password, api_url |-> api_url,
     account_id |-> account_id]

Usernames == {<<"a", "l">>, <<"b", "o", "b">>}
Passwords == {<<"p", "w">>, <<"x">>}

\* discover is called: its variables are those of a fresh call.
CallDiscover(username, password) ==
    /\ dPc' = "idle"
    /\ dUser' = username
    /\ dPass' = password
    /\ dAuth' = <<>>
    /\ dI' = 0
    /\ dUrl' = <<>>
    /\ dBody' = EmptyBody
    /\ dResult' = NoResult
    /\ dClient' = None
    /\ dReqs' = <<>>
    /\ dResps' = <<>>
    /\ dParsed' = 0

\* The caller has taken discover's result: its locals are gone.
DropDiscover ==
    /\ dPc' = "done"
    /\ dUser' = <<>>
    /\ dPass' = <<>>
    /\ dAuth' = <<>>
    /\ dI' = 0
    /\ dUrl' = <<>>
    /\ dBody' = EmptyBody
    /\ dResult' = NoResult
    /\ dClient' = None
    /\ dReqs' = <<>>
    /\ dResps' = <<>>
    /\ dParsed' = 0

\* The variables of a discover call that has not run its first statement.
DiscoverCalled(username, password) ==
    /\ dPc = "idle"
    /\ dUser = username
    /\ dPass = password
    /\ dAuth = <<>>
    /\ dI = 0
    /\ dUrl = <<>>
    /\ dBody = EmptyBody
    /\ dResult = NoResult
    /\ dClient = None
    /\ dReqs = <<>>
    /\ dResps = <<>>
    /\ dParsed = 0

\* No discover call is in progress.
DiscoverIdle ==
    /\ dPc = "done"
    /\ dUser = <<>>
    /\ dPass = <<>>
    /\ dAuth = <<>>
    /\ dI = 0
    /\ dUrl = <<>>
    /\ dBody = EmptyBody
    /\ dResult = NoResult
    /\ dClient = None
    /\ dReqs = <<>>
    /\ dResps = <<>>
    /\ dParsed = 0

\* discover up to the first request: build auth once, enter the loop.
DiscoverStart ==
    /\ dPc = "idle"
    /\ dAuth' = auth_header(dUser, dPass)
    /\ dUrl' = WellKnownUrl
    /\ dI' = 0
    /\ dPc' = "fetch"
    /\ UNCHANGED <<dUser, dPass, dBody, dResult, dClient, dReqs, dResps, dParsed>>

\* One iteration of the loop: the GET, the server's answer, the match.
Hop(resp) ==
    /\ dPc = "fetch"
    /\ LoopContinues(dI, MaxRedirects)
    /\ dReqs' = Append(dReqs, GetRequest(dUrl, dAuth))
    /\ dResps' = Append(dResps, resp)
    /\ LET out == MatchResponse(dUrl, resp) IN
         /\ dUrl' = out.url
         /\ dI' = IF out.act = "continue" THEN dI + 1 ELSE dI
         /\ dBody' = IF out.act = "ok" THEN resp.body ELSE dBody
         /\ dResult' = out.err
         /\ dPc' = CASE out.act = "continue" -> "fetch"
                     [] out.act = "ok" -> "parse"
                     [] out.act = "err" -> "done"
                     [] out.act = "panic" -> "panicked"
    /\ UNCHANGED <<dUser, dPass, dAuth, dClient, dParsed>>

\* The loop ran max_redirects times without returning.
TooManyRedirects ==
    /\ dPc = "fetch"
    /\ ~LoopContinues(dI, MaxRedirects)
    /\ dResult' = JmapError("Http", "Too many redirects", 0)
    /\ dPc' = "done"
    /\ UNCHANGED <<dUser, dPass, dAuth, dI, dUrl, dBody, dClient, dReqs, dResps,
                   dParsed>>

Returned(result, client) == [result |-> result, client |-> client]

\* An error whose message quotes the response text cut to 500 bytes.
ExcerptError(kind, msg, response_text) ==
    IF truncate_str(response_text.text, SessionExcerptLen).panic
    THEN Returned(Panicked, None)
    ELSE Returned(WithExcerpt(JmapError(kind, msg, 0),
                      truncate_str(response_text.text, SessionExcerptLen).text),
                  None)

\* A slip: the client is built with the URL the session was asked at
\* instead of the document's apiUrl.
session_to_client_well_known_url(username, password, response_text) ==
    IF response_text.kind # "session"
    THEN ExcerptError("Parse", "Failed to parse session", response_text)
    ELSE IF mail_account_id(response_text) = None
    THEN ExcerptError("Api", "No mail account found", response_text)
    ELSE Returned(OkResult,
             Some(JmapClient(username, password, WellKnownUrl,
                             mail_account_id(response_text)[1])))

\* discover after the fetch: parse the session (a Parse error quotes the
\* body), find the mail account (an Api error quotes it too), build the
\* client.
session_to_client(username, password, response_text) ==
    IF response_text.kind # "session"
    THEN ExcerptError("Parse", "Failed to parse session", response_text)
    ELSE IF mail_account_id(response_text) = None
    THEN ExcerptError("Api", "No mail account found", response_text)
    ELSE Returned(OkResult,
             Some(JmapClient(username, password, response_text.apiUrl,
                             mail_account_id(response_text)[1])))

DiscoverParse ==
    /\ dPc = "parse"
    /\ dParsed' = dParsed + 1
    /\ dResult' = session_to_client(dUser, dPass, dBody).result
    /\ dClient' = session_to_client(dUser, dPass, dBody).client
    /\ dPc' = IF session_to_client(dUser, dPass, dBody).result = Panicked
              THEN "panicked" ELSE "done"
    /\ UNCHANGED <<dUser, dPass, dAuth, dI, dUrl, dBody, dReqs, dResps>>

(***************************************************************************)
(* SessionStore: a RwLock<HashMap<Uuid, Session>> called from any number   *)
(* of threads. Each call is split at the points where other threads can    *)
(* run: taking the lock, the mutation of the map (which is not atomic:     *)
(* between its two steps the entry is torn), and dropping the guard.       *)
(***************************************************************************)
Threads == 1..NumThreads

\* Uuid values: those Uuid::now_v7 can return, and one the store never made
\* (any well-formed UUID a cookie may carry).
Tokens == 1..MaxTokens
ForgedToken == MaxTokens + 1

\* Session (the fields handle_login stores).
Session(username, password, api_url, account_id) ==
    [username |-> username, password |-> password, api_url |-> api_url,
     account_id |-> account_id]
NoSession == Session(<<>>, <<>>, <<>>, "")
SessionAl == Session(<<"a", "l">>, <<"p", "w">>, ApiUrlA, "u1")
SessionBob == Session(<<"b", "o", "b">>, <<"x">>, ApiUrlA, "u3")
Sessions == {SessionAl, SessionBob}

\* An entry while HashMap::insert or HashMap::remove is moving it: the key
\* and the first two fields are in place, the rest is not.
Torn(s) == Session(s.username, s.password, <<"?">>, "?")

\* The closures the handlers pass to get: serve_main_page takes the
\* username, get_client builds a client with from_session.
Projectors == {"username", "client"}
\* A slip: the client is pointed at the well-known URL again, as if it
\* still had to be discovered.
from_session_well_known_url(username, password, api_url, account_id) ==
    JmapClient(username, password, WellKnownUrl, account_id)

from_session(username, password, api_url, account_id) ==
    JmapClient(username, password, api_url, account_id)
Project(f, s) ==
    IF f = "username"
    THEN [username |-> s.username]
    ELSE from_session(s.username, s.password, s.api_url, s.account_id)

\* A slip: inserting drops every other entry (a store that keeps one session).
MapInsertEvictsOthers(map, id, s) == [k \in {id} |-> s]

\* HashMap operations on a map held as a function.
MapInsert(map, id, s) == [k \in DOMAIN map \cup {id} |-> IF k = id THEN s ELSE map[k]]

\* A slip: the entry is handed back but left in the map.
MapRemoveKeepsEntry(map, id) == map

\* A slip: remove empties the map.
MapRemoveClears(map, id) == [k \in {} |-> map[k]]

MapRemove(map, id) == [k \in DOMAIN map \ {id} |-> map[k]]

contains_key(map, id) == id \in DOMAIN map

\* A slip: the generator hands out the same value again.
now_v7_repeating(made) == CHOOSE id \in Tokens : \A other \in Tokens : id <= other

\* Uuid::now_v7(): the uuid crate's contract is that the value is one it
\* never returned before (and that nobody could have guessed it); the store
\* does not check for a collision. Version 7 values are ordered by time and
\* otherwise opaque, so the model hands out the unused values in order.
now_v7(made) == CHOOSE id \in Tokens \ made : \A other \in Tokens \ made : id <= other

\* A slip: readers do not wait for the writer (the map read without the lock).
CanReadIgnoringWriter(writer, readers) == TRUE

\* RwLock::read succeeds when no writer holds the lock.
CanRead(writer, readers) == writer = None

\* A slip: a writer waits for other writers only, not for readers.
CanWriteIgnoringReaders(writer, readers) == writer = None

\* RwLock::write succeeds when nobody holds the lock.
CanWrite(writer, readers) == writer = None /\ readers = {}

\* A call of a thread, and what it returned. ret.found is Some/None (for
\* exists: true/false), ret.value the payload.
Call(op, id, session, f) == [op |-> op, id |-> id, session |-> session, f |-> f]
NoCall == Call("none", ForgedToken, NoSession, "")
Ret(found, value) == [found |-> found, value |-> value]
NoRet == Ret(FALSE, <<>>)

StoreIdle ==
    /\ sessions = <<>>
    /\ lockWriter = None
    /\ lockReaders = {}
    /\ tPc = [th \in Threads |-> "idle"]
    /\ tCall = [th \in Threads |-> NoCall]
    /\ tRet = [th \in Threads |-> NoRet]
    /\ generated = {}
    /\ returned = {}
    /\ createdWith = <<>>
    /\ removeReturned = {}
    /\ calls = 0

\* ---- create
\* let id = Uuid::now_v7(), before the lock is taken.
CreateNewId(th, s) ==
    /\ tPc[th] = "idle"
    /\ calls < MaxCalls
    /\ calls' = calls + 1
    /\ generated # Tokens
    /\ generated' = generated \cup {now_v7(generated)}
    /\ tCall' = [tCall EXCEPT ![th] = Call("create", now_v7(generated), s, "")]
    /\ tPc' = [tPc EXCEPT ![th] = "create_lock"]
    /\ tRet' = [tRet EXCEPT ![th] = NoRet]
    /\ UNCHANGED <<sessions, lockWriter, lockReaders, returned, createdWith,
                   removeReturned>>

CreateLock(th) ==
    /\ tPc[th] = "create_lock"
    /\ CanWrite(lockWriter, lockReaders)
    /\ lockWriter' = Some(th)
    /\ tPc' = [tPc EXCEPT ![th] = "create_insert"]
    /\ UNCHANGED <<sessions, lockReaders, tCall, tRet, generated, returned,
                   createdWith, removeReturned>>
    /\ UNCHANGED calls

\* HashMap::insert, first part: the entry appears, not yet whole.
CreateInsertBegin(th) ==
    /\ tPc[th] = "create_insert"
    /\ sessions' = MapInsert(sessions, tCall[th].id, Torn(tCall[th].session))
    /\ tPc' = [tPc EXCEPT ![th] = "create_insert_end"]
    /\ UNCHANGED <<lockWriter, lockReaders, tCall, tRet, generated, returned,
                   createdWith, removeReturned>>
    /\ UNCHANGED calls

\* HashMap::insert, second part; the guard is dropped at the end of the
\* statement and create returns id.
CreateInsertEnd(th) ==
    /\ tPc[th] = "create_insert_end"
    /\ sessions' = MapInsert(sessions, tCall[th].id, tCall[th].session)
    /\ lockWriter' = None
    /\ tRet' = [tRet EXCEPT ![th] = Ret(TRUE, <<tCall[th].id>>)]
    /\ returned' = returned \cup {tCall[th].id}
    /\ createdWith' = MapInsert(createdWith, tCall[th].id, tCall[th].session)
    /\ tPc' = [tPc EXCEPT ![th] = "ret"]
    /\ UNCHANGED <<lockReaders, tCall, generated, removeReturned>>
    /\ UNCHANGED calls

\* ---- get
GetLock(th, id, f) ==
    /\ tPc[th] = "idle"
    /\ calls < MaxCalls
    /\ calls' = calls + 1
    /\ CanRead(lockWriter, lockReaders)
    /\ lockReaders' = lockReaders \cup {th}
    /\ tCall' = [tCall EXCEPT ![th] = Call("get", id, NoSession, f)]
    /\ tRet' = [tRet EXCEPT ![th] = NoRet]
    /\ tPc' = [tPc EXCEPT ![th] = "get_read"]
    /\ UNCHANGED <<sessions, lockWriter, generated, returned, createdWith,
                   removeReturned>>

\* A slip: get moves the entry out of the map as it reads it.
GetReadTakesEntry(th) ==
    /\ tPc[th] = "get_read"
    /\ tRet' = [tRet EXCEPT ![th] =
                  IF contains_key(sessions, tCall[th].id)
                  THEN Ret(TRUE, Project(tCall[th].f, sessions[tCall[th].id]))
                  ELSE NoRet]
    /\ sessions' = MapRemove(sessions, tCall[th].id)
    /\ lockReaders' = lockReaders \ {th}
    /\ tPc' = [tPc EXCEPT ![th] = "ret"]
    /\ UNCHANGED <<lockWriter, tCall, generated, returned, createdWith,
                   removeReturned>>
    /\ UNCHANGED calls

\* .get(id).map(f), then the guard is dropped and the value returned.
GetRead(th) ==
    /\ tPc[th] = "get_read"
    /\ tRet' = [tRet EXCEPT ![th] =
                  IF contains_key(sessions, tCall[th].id)
                  THEN Ret(TRUE, Project(tCall[th].f, sessions[tCall[th].id]))
                  ELSE NoRet]
    /\ lockReaders' = lockReaders \ {th}
    /\ tPc' = [tPc EXCEPT ![th] = "ret"]
    /\ UNCHANGED <<sessions, lockWriter, tCall, generated, returned, createdWith,
                   removeReturned>>
    /\ UNCHANGED calls

\* ---- exists
ExistsLock(th, id) ==
    /\ tPc[th] = "idle"
    /\ calls < MaxCalls
    /\ calls' = calls + 1
    /\ CanRead(lockWriter, lockReaders)
    /\ lockReaders' = lockReaders \cup {th}
    /\ tCall' = [tCall EXCEPT ![th] = Call("exists", id, NoSession, "")]
    /\ tRet' = [tRet EXCEPT ![th] = NoRet]
    /\ tPc' = [tPc EXCEPT ![th] = "exists_read"]
    /\ UNCHANGED <<sessions, lockWriter, generated, returned, createdWith,
                   removeReturned>>

ExistsRead(th) ==
    /\ tPc[th] = "exists_read"
    /\ tRet' = [tRet EXCEPT ![th] = Ret(contains_key(sessions, tCall[th].id), <<>>)]
    /\ lockReaders' = lockReaders \ {th}
    /\ tPc' = [tPc EXCEPT ![th] = "ret"]
    /\ UNCHANGED <<sessions, lockWriter, tCall, generated, returned, createdWith,
                   removeReturned>>
    /\ UNCHANGED calls

\* ---- remove
RemoveLock(th, id) ==
    /\ tPc[th] = "idle"
    /\ calls < MaxCalls
    /\ calls' = calls + 1
    /\ CanWrite(lockWriter, lockReaders)
    /\ lockWriter' = Some(th)
    /\ tCall' = [tCall EXCEPT ![th] = Call("remove", id, NoSession, "")]
    /\ tRet' = [tRet EXCEPT ![th] = NoRet]
    /\ tPc' = [tPc EXCEPT ![th] = "remove_take"]
    /\ UNCHANGED <<sessions, lockReaders, generated, returned, createdWith,
                   removeReturned>>

\* HashMap::remove, first part: the value is being moved out of the entry.
RemoveTakeBegin(th) ==
    /\ tPc[th] = "remove_take"
    /\ IF contains_key(sessions, tCall[th].id)
       THEN /\ tCall' = [tCall EXCEPT ![th].session = sessions[tCall[th].id]]
            /\ sessions' = MapInsert(sessions, tCall[th].id,
                                     Torn(sessions[tCall[th].id]))
            /\ tRet' = [tRet EXCEPT ![th] = Ret(TRUE, <<>>)]
       ELSE UNCHANGED <<sessions, tCall, tRet>>
    /\ tPc' = [tPc EXCEPT ![th] = "remove_take_end"]
    /\ UNCHANGED <<lockWriter, lockReaders, generated, returned, createdWith,
                   removeReturned>>
    /\ UNCHANGED calls

\* A slip: the entry is deleted but the record is not handed back.
RemoveTakeEndReturnsNone(th) ==
    /\ tPc[th] = "remove_take_end"
    /\ sessions' = MapRemove(sessions, tCall[th].id)
    /\ tRet' = [tRet EXCEPT ![th] = NoRet]
    /\ lockWriter' = None
    /\ removeReturned' = removeReturned \cup {tCall[th].id}
    /\ tPc' = [tPc EXCEPT ![th] = "ret"]
    /\ UNCHANGED <<lockReaders, tCall, generated, returned, createdWith>>
    /\ UNCHANGED calls

\* HashMap::remove, second part; the guard is dropped and the Option<Session>
\* returned.
RemoveTakeEnd(th) ==
    /\ tPc[th] = "remove_take_end"
    /\ sessions' = MapRemove(sessions, tCall[th].id)
    /\ tRet' = [tRet EXCEPT ![th] =
                  IF tRet[th].found THEN Ret(TRUE, tCall[th].session) ELSE NoRet]
    /\ lockWriter' = None
    /\ removeReturned' = removeReturned \cup {tCall[th].id}
    /\ tPc' = [tPc EXCEPT ![th] = "ret"]
    /\ UNCHANGED <<lockReaders, tCall, generated, returned, createdWith>>
    /\ UNCHANGED calls

\* The caller has the value; the thread is free for its next call.
Return(th) ==
    /\ tPc[th] = "ret"
    /\ tPc' = [tPc EXCEPT ![th] = "idle"]
    /\ tCall' = [tCall EXCEPT ![th] = NoCall]
    /\ tRet' = [tRet EXCEPT ![th] = NoRet]
    /\ UNCHANGED <<sessions, lockWriter, lockReaders, generated, returned,
                   createdWith, removeReturned>>
    /\ UNCHANGED calls

(***************************************************************************)
(* The mail operations of JmapClient: one POST to the api URL per call,    *)
(* and the handlers that use them. The log macros are sinks: they take no  *)
(* part in what an operation returns.                                      *)
(***************************************************************************)
\* Email and Mailbox values as the server sends them (the fields the
\* operations look at: none but the id, which the handler compares).
Email(id, subject) == [id |-> id, subject |-> subject]
EmailIds == {"e1", "e2", "e3"}
E1 == Email("e1", "one")
E2 == Email("e2", "two")
E3 == Email("e3", "three")
Mailbox(id, name) == [id |-> id, name |-> name]
Inbox == Mailbox("mbox1", "Inbox")
Sent == Mailbox("mbox2", "Sent")

\* One entry of methodResponses: the method name and its arguments. shape
\* says which response type the arguments deserialize into, if any.
Arguments(shape, ids, list, notFound) ==
    [shape |-> shape, ids |-> ids, list |-> list, notFound |-> notFound]
MethodResponse(name, arguments) == [name |-> name, arguments |-> arguments]
MailboxGetArguments == {Arguments("Mailbox/get", <<>>, l, <<>>) : l \in {<<>>, <<Inbox, Sent>>}}
EmailQueryArguments ==
    {Arguments("Email/query", i, <<>>, <<>>) :
        i \in {<<>>, <<"e2">>, <<"e3", "e1", "e2">>}}
EmailGetArguments ==
    {Arguments("Email/get", <<>>, <<E3, E1, E2>>, <<>>),
     Arguments("Email/get", <<>>, <<E3, E2>>, <<"e1">>),
     Arguments("Email/get", <<>>, <<E2>>, <<>>),
     Arguments("Email/get", <<>>, <<>>, <<"e2">>)}
ErrorArguments == Arguments("error", <<>>, <<>>, <<>>)
GoodMethodResponses ==
    {MethodResponse(a.shape, a) :
        a \in MailboxGetArguments \cup EmailQueryArguments \cup EmailGetArguments}
\* The methodResponses arrays the server sends: none, one entry (with the
\* right arguments, or with arguments of another shape), and two entries
\* of which the first is an error or another method's response.
MethodResponseLists ==
    {<<>>}
    \cup {<<m>> : m \in GoodMethodResponses}
    \cup {<<MethodResponse(n, ErrorArguments)>> :
            n \in {"error", "Mailbox/get", "Email/query", "Email/get"}}
    \cup {<<MethodResponse("error", ErrorArguments), m>> : m \in GoodMethodResponses}
    \cup {<<m, MethodResponse("error", ErrorArguments)>> : m \in GoodMethodResponses}

\* What ureq::post(..).send_json(..) returns: Ok(response) with a body that
\* cannot be read, is no JmapResponse, or is one; or an Err (a 4xx or 5xx
\* status, or a transport failure).
ApiResponse(wrap, kind, method_responses) ==
    [wrap |-> wrap, kind |-> kind, method_responses |-> method_responses]
ApiResponses ==
    {ApiResponse("Err", "status", <<>>), ApiResponse("Err", "transport", <<>>),
     ApiResponse("Ok", "unreadable", <<>>), ApiResponse("Ok", "garbage", <<>>)}
    \cup {ApiResponse("Ok", "json", l) : l \in MethodResponseLists}

\* Result<T, JmapError> of a mail operation: value is the Vec (or, for
\* get_email, the Option) of an Ok.
MailResult(kind, msg, value) == [kind |-> kind, msg |-> msg, value |-> value]
NoMailResult == MailResult("none", "", <<>>)
MailOk(value) == MailResult("Ok", "", value)

\* JmapClient::call after the request was sent: the parsed JmapResponse or
\* the error. value is method_responses.
call(response) ==
    IF response.wrap = "Err" THEN MailResult("Http", "API call failed", <<>>)
    ELSE IF response.kind = "unreadable"
    THEN MailResult("Parse", "Failed to read response", <<>>)
    ELSE IF response.kind = "garbage"
    THEN MailResult("Parse", "Failed to parse response", <<>>)
    ELSE MailOk(response.method_responses)

\* serde_json::from_value into the response type of a method.
from_value(arguments, shape) ==
    IF arguments.shape = shape THEN Some(arguments) ELSE None

UnexpectedResponse == MailResult("Api", "Unexpected response", <<>>)
FromValueError == MailResult("Parse", "from_value", <<>>)

\* A slip: the response to the method is looked for among all entries.
get_mailboxes_any_entry(called) ==
    IF called.kind # "Ok" THEN called
    ELSE LET hits == SelectSeq(called.value, LAMBDA m : m.name = "Mailbox/get")
         IN  IF hits = <<>> THEN UnexpectedResponse
             ELSE IF from_value(hits[1].arguments, "Mailbox/get") = None
             THEN FromValueError
             ELSE MailOk(hits[1].arguments.list)

\* get_mailboxes after self.call(request).
get_mailboxes(called) ==
    IF called.kind # "Ok" THEN called
    ELSE IF called.value = <<>> THEN UnexpectedResponse
    ELSE IF called.value[1].name # "Mailbox/get" THEN UnexpectedResponse
    ELSE IF from_value(called.value[1].arguments, "Mailbox/get") = None
    THEN FromValueError
    ELSE MailOk(called.value[1].arguments.list)

RECURSIVE Reverse(_)
Reverse(s) == IF s = <<>> THEN <<>> ELSE Append(Reverse(Tail(s)), Head(s))

\* A slip: the ids are handed back oldest first.
query_emails_reversed(called) ==
    IF called.kind # "Ok" THEN called
    ELSE IF called.value = <<>> THEN UnexpectedResponse
    ELSE IF called.value[1].name # "Email/query" THEN UnexpectedResponse
    ELSE IF from_value(called.value[1].arguments, "Email/query") = None
    THEN FromValueError
    ELSE MailOk(Reverse(called.value[1].arguments.ids))

\* query_emails after self.call(request).
query_emails(called) ==
    IF called.kind # "Ok" THEN called
    ELSE IF called.value = <<>> THEN UnexpectedResponse
    ELSE IF called.value[1].name # "Email/query" THEN UnexpectedResponse
    ELSE IF from_value(called.value[1].arguments, "Email/query") = None
    THEN FromValueError
    ELSE MailOk(called.value[1].arguments.ids)

\* A slip: a list of another length than the request is refused.
get_emails_strict(ids, called) ==
    IF called.kind # "Ok" THEN called
    ELSE IF called.value = <<>> THEN UnexpectedResponse
    ELSE IF called.value[1].name # "Email/get" THEN UnexpectedResponse
    ELSE IF from_value(called.value[1].arguments, "Email/get") = None
    THEN FromValueError
    ELSE IF Len(called.value[1].arguments.list) # Len(ids) THEN UnexpectedResponse
    ELSE MailOk(called.value[1].arguments.list)

\* get_emails after self.call(request): a notFound that is not empty and a
\* list of another length than ids are logged, nothing more.
get_emails(ids, called) ==
    IF called.kind # "Ok" THEN called
    ELSE IF called.value = <<>> THEN UnexpectedResponse
    ELSE IF called.value[1].name # "Email/get" THEN UnexpectedResponse
    ELSE IF from_value(called.value[1].arguments, "Email/get") = None
    THEN FromValueError
    ELSE MailOk(called.value[1].arguments.list)

\* A slip: the last element of the list is taken.
get_email_last(emails) ==
    IF emails.kind # "Ok" THEN emails
    ELSE IF emails.value = <<>> THEN MailOk(None)
    ELSE MailOk(Some(emails.value[Len(emails.value)]))

\* get_email: the first element of what get_emails returned, if any.
get_email(emails) ==
    IF emails.kind # "Ok" THEN emails
    ELSE IF emails.value = <<>> THEN MailOk(None)
    ELSE MailOk(Some(emails.value[1]))

\* A slip: get_emails posts the request also for an empty id list.
ReturnsWithoutCallNever(name, ids) == FALSE

\* get_emails: if ids.is_empty() { return Ok(vec![]) }
ReturnsWithoutCall(name, ids) == name = "get_emails" /\ ids = <<>>

\* An operation in progress: its name and parameters.
Operation(name, mailbox_id, limit, ids) ==
    [name |-> name, mailbox_id |-> mailbox_id, limit |-> limit, ids |-> ids]
NoOperation == Operation("none", "", 0, <<>>)

\* The request an operation posts: the method call and the arguments that
\* depend on the operation's parameters.
Post(url, auth, method, account_id, mailbox_id, limit, ids) ==
    [url |-> url, auth |-> auth, method |-> method, account_id |-> account_id,
     mailbox_id |-> mailbox_id, limit |-> limit, ids |-> ids]
RequestOf(client, op) ==
    CASE op.name = "get_mailboxes" ->
            Post(client.api_url, auth_header(client.username, client.password),
                 "Mailbox/get", client.account_id, "", 0, <<>>)
      [] op.name = "query_emails" ->
            Post(client.api_url, auth_header(client.username, client.password),
                 "Email/query", client.account_id, op.mailbox_id, op.limit, <<>>)
      [] op.name \in {"get_emails", "get_email"} ->
            Post(client.api_url, auth_header(client.username, client.password),
                 "Email/get", client.account_id, "", 0, op.ids)

\* What the operation makes of the response.
ResultOf(op, response) ==
    CASE op.name = "get_mailboxes" -> get_mailboxes(call(response))
      [] op.name = "query_emails" -> query_emails(call(response))
      [] op.name = "get_emails" -> get_emails(op.ids, call(response))
      [] op.name = "get_email" -> get_email(get_emails(op.ids, call(response)))

\* The handler's response: the fragment rendered, what it renders, and the
\* missing ids handle_emails logs when the counts differ.
Fragment(kind, items, missing) == [kind |-> kind, items |-> items, missing |-> missing]
NoFragment == Fragment("none", <<>>, <<>>)

\* A slip: the difference is taken the other way round, the returned ids
\* that were not requested.
MissingIdsFromReturned(ids, emails) ==
    IF Len(emails) = Len(ids) THEN <<>>
    ELSE LET returned_ids == [k \in 1..Len(emails) |-> emails[k].id]
         IN  SelectSeq(returned_ids, LAMBDA id : \A k \in 1..Len(ids) : ids[k] # id)

\* handle_emails: the requested ids that are not the id of a returned email.
MissingIds(ids, emails) ==
    IF Len(emails) = Len(ids) THEN <<>>
    ELSE SelectSeq(ids, LAMBDA id : \A k \in 1..Len(emails) : emails[k].id # id)

\* The limit handle_emails passes to query_emails.
QueryLimit == 50

\* The client the operations run on, as get_client built it.
MailClient == JmapClient(<<"a", "l">>, <<"p", "w">>, ApiUrlA, "u1")

MailIdle ==
    /\ mPc = "idle"
    /\ mHandler = "none"
    /\ mOp = NoOperation
    /\ mPosts = <<>>
    /\ mResps = <<>>
    /\ mResult = NoMailResult
    /\ mPage = NoFragment

\* The id lists callers pass to get_emails.
IdLists == {<<>>, <<"e2">>, <<"e3", "e1", "e2">>, <<"e1", "e3">>}

\* A client operation is called directly.
CallOperation(op) ==
    /\ mPc = "idle"
    /\ mHandler' = "none"
    /\ mOp' = op
    /\ mPc' = "op"
    /\ UNCHANGED <<mPosts, mResps, mResult, mPage>>

\* A mail handler runs up to its first client operation (get_client has
\* given it the client).
HandlerStarts(handler) ==
    /\ mPc = "idle"
    /\ mHandler' = handler
    /\ mOp' = CASE handler = "handle_mailboxes" -> Operation("get_mailboxes", "", 0, <<>>)
                [] handler = "handle_emails" ->
                       Operation("query_emails", "mbox1", QueryLimit, <<>>)
                [] handler = "handle_email" -> Operation("get_email", "", 0, <<"e1">>)
    /\ mPc' = "op"
    /\ UNCHANGED <<mPosts, mResps, mResult, mPage>>

\* get_emails with no ids returns at once.
OperationShortCircuits ==
    /\ mPc = "op"
    /\ ReturnsWithoutCall(mOp.name, mOp.ids)
    /\ mResult' = MailOk(<<>>)
    /\ mPc' = "returned"
    /\ UNCHANGED <<mHandler, mOp, mPosts, mResps, mPage>>

\* A slip: a request that ended in an error is sent a second time.
ApiCallRetriesOnError(response) ==
    /\ mPc = "op"
    /\ ~ReturnsWithoutCall(mOp.name, mOp.ids)
    /\ mPosts' = IF ResultOf(mOp, response).kind = "Ok"
                 THEN Append(mPosts, RequestOf(MailClient, mOp))
                 ELSE mPosts \o <<RequestOf(MailClient, mOp), RequestOf(MailClient, mOp)>>
    /\ mResps' = IF ResultOf(mOp, response).kind = "Ok"
                 THEN Append(mResps, response)
                 ELSE mResps \o <<response, response>>
    /\ mResult' = ResultOf(mOp, response)
    /\ mPc' = "returned"
    /\ UNCHANGED <<mHandler, mOp, mPage>>

\* The operation posts its request, the server answers, the operation
\* returns.
ApiCall(response) ==
    /\ mPc = "op"
    /\ ~ReturnsWithoutCall(mOp.name, mOp.ids)
    /\ mPosts' = Append(mPosts, RequestOf(MailClient, mOp))
    /\ mResps' = Append(mResps, response)
    /\ mResult' = ResultOf(mOp, response)
    /\ mPc' = "returned"
    /\ UNCHANGED <<mHandler, mOp, mPage>>

\* The caller takes the result: a direct caller is done, a handler renders
\* it, and handle_emails goes on to get_emails when the query gave ids.
CallerContinues ==
    /\ mPc = "returned"
    /\ CASE mHandler = "none" ->
              /\ mPc' = "done"
              /\ UNCHANGED <<mOp, mPage>>
         [] mHandler = "handle_mailboxes" ->
              /\ mPage' = IF mResult.kind = "Ok"
                          THEN Fragment("mailbox_list", mResult.value, <<>>)
                          ELSE Fragment("error_fragment", <<>>, <<>>)
              /\ mPc' = "done"
              /\ UNCHANGED mOp
         [] mHandler = "handle_email" ->
              /\ mPage' = IF mResult.kind # "Ok" \/ mResult.value = None
                          THEN Fragment("error_fragment", <<>>, <<>>)
                          ELSE Fragment("email_view", mResult.value, <<>>)
              /\ mPc' = "done"
              /\ UNCHANGED mOp
         [] mHandler = "handle_emails" /\ mOp.name = "query_emails" ->
              IF mResult.kind # "Ok"
              THEN /\ mPage' = Fragment("error_fragment", <<>>, <<>>)
                   /\ mPc' = "done"
                   /\ UNCHANGED mOp
              ELSE IF mResult.value = <<>>
              THEN /\ mPage' = Fragment("email_list", <<>>, <<>>)
                   /\ mPc' = "done"
                   /\ UNCHANGED mOp
              ELSE /\ mOp' = Operation("get_emails", "", 0, mResult.value)
                   /\ mPc' = "op"
                   /\ UNCHANGED mPage
         [] mHandler = "handle_emails" /\ mOp.name = "get_emails" ->
              /\ mPage' = IF mResult.kind = "Ok"
                          THEN Fragment("email_list", mResult.value,
                                        MissingIds(mOp.ids, mResult.value))
                          ELSE Fragment("error_fragment", <<>>, <<>>)
              /\ mPc' = "done"
              /\ UNCHANGED mOp
    /\ UNCHANGED <<mHandler, mPosts, mResps, mResult>>

Operations ==
    {Operation("get_mailboxes", "", 0, <<>>)}
    \cup {Operation("query_emails", "mbox1", l, <<>>) : l \in {1, QueryLimit}}
    \cup {Operation("get_emails", "", 0, ids) : ids \in IdLists}
    \cup {Operation("get_email", "", 0, <<id>>) : id \in {"e1", "e2"}}
Handlers == {"handle_mailboxes", "handle_emails", "handle_email"}

(***************************************************************************)
(* The web layer: main's loop takes one request at a time and runs         *)
(* handle_request on it to the end. The handlers call the store from this  *)
(* one thread, so each store call runs alone.                              *)
(***************************************************************************)
\* The two paths route serves without a session.
StaticPath == "/static/htmx.min.js"
LoginPath == "/login"
\* The request lines: one for each arm of route, and some no arm matches.
OpenRequestLines == {<<"GET", StaticPath>>, <<"GET", LoginPath>>, <<"PUT", LoginPath>>}
SessionRequestLines ==
    {<<"GET", "/">>, <<"POST", "/logout">>, <<"GET", "/logout">>, <<"GET", "/mailboxes">>,
     <<"GET", "/mailbox/inbox/emails">>, <<"GET", "/email/e1">>, <<"GET", "/email/e1/raw">>,
     <<"GET", "/nowhere">>}

\* A request: the Cookie header's session id as parse_session_cookie gives
\* it, whether an HX-Request header is present, and the form fields of the
\* body.
Request(method, path, cookie, htmx, username, password) ==
    [method |-> method, path |-> path, cookie |-> cookie, htmx |-> htmx,
     username |-> username, password |-> password]
NoRequest == Request("", "", None, FALSE, None, None)

\* A response: what is served and the Set-Cookie header (a session id, or
\* the cookie cleared).
HttpResponse(kind, set_cookie, clear_cookie) ==
    [kind |-> kind, set_cookie |-> set_cookie, clear_cookie |-> clear_cookie]
NoResponse == HttpResponse("none", None, FALSE)
Page(kind) == HttpResponse(kind, None, FALSE)

\* redirect_to_login: the login page for htmx requests, else a 303.
redirect_to_login(request) ==
    IF request.htmx THEN Page("login_page") ELSE Page("see_other_login")

\* The authenticated arms of route, for the paths above.
HandlerOf(method, path) ==
    CASE method = "GET" /\ path = "/" -> "serve_main_page"
      [] method = "POST" /\ path = "/logout" -> "handle_logout"
      [] method = "GET" /\ path = "/mailboxes" -> "handle_mailboxes"
      [] method = "GET" /\ path = "/mailbox/inbox/emails" -> "handle_emails"
      [] method = "GET" /\ path = "/email/e1/raw" -> "handle_email_raw"
      [] method = "GET" /\ path = "/email/e1" -> "handle_email"
      [] OTHER -> "serve_404"
MailHandlers == {"handle_mailboxes", "handle_emails", "handle_email", "handle_email_raw"}

\* A Cookie header as a list of cookies: the name, and what Uuid::parse_str
\* makes of the value (None when it is no UUID).
Cookie(name, uuid) == [name |-> name, uuid |-> uuid]

\* parse_session_cookie: the first cookie named session decides.
parse_session_cookie(cookie_header) ==
    LET hits == SelectSeq(cookie_header, LAMBDA c : c.name = "session")
    IN  IF hits = <<>> THEN None ELSE hits[1].uuid

\* handle_request: the session id of the Cookie header, if there is one.
SessionIdOf(header) ==
    IF header = None THEN None ELSE parse_session_cookie(header[1])

\* A slip: any request that carries a session cookie passes.
SessionCheckAnyCookie(session_id, map) == session_id # None

\* A slip: the token is looked up among the tokens ever handed out, not in
\* the store.
SessionCheckEverIssued(session_id, map) ==
    session_id # None /\ session_id[1] \in returned

\* route's check for all routes but /login and the static file:
\* Some(id) if state.sessions.exists(&id).
SessionCheck(session_id, map) ==
    session_id # None /\ contains_key(map, session_id[1])

\* A slip: the handler builds its client from the record the token was
\* handed out with, as if route's check had settled that it is stored.
get_client_of_checked_token(map, session_id) ==
    IF contains_key(createdWith, session_id)
    THEN Some(Project("client", createdWith[session_id]))
    ELSE None

\* get_client: sessions.get(session_id, |s| JmapClient::from_session(..)).
get_client(map, session_id) ==
    IF contains_key(map, session_id) THEN Some(Project("client", map[session_id]))
    ELSE None

WebIdle ==
    /\ wPc = "accept"
    /\ wReq = NoRequest
    /\ wGate = "none"
    /\ wResp = NoResponse
    /\ wClient = None
    /\ wHandled = 0
    /\ wLoginTokens = {}
    /\ wLoginClient = <<>>
    /\ wLoggedOut = {}

\* The store variables a call made by the one server thread leaves alone.
storeThreadVars == <<lockWriter, lockReaders, tPc, tCall, tRet, calls>>

\* The Cookie headers the model sends: none, one without a session cookie,
\* one whose session value is no UUID (alone, or before a well-formed one),
\* and one carrying a token some create handed out or a value the store
\* never made.
CookieHeaders ==
    {None, Some(<<Cookie("theme", None)>>), Some(<<Cookie("session", None)>>)}
    \cup {Some(<<Cookie("session", None), Cookie("session", Some(id))>>) : id \in returned}
    \cup {Some(<<Cookie("theme", None), Cookie("session", Some(id))>>) :
            id \in returned \cup {ForgedToken}}
CookieValues == {SessionIdOf(header) : header \in CookieHeaders}
\* u8::from_str_radix(hex, 16) for the at most two characters that follow
\* a '%': one or two hex digits, with an optional '+' before a single one.
HexDigits ==
    <<"0", "1", "2", "3", "4", "5", "6", "7", "8", "9", "a", "b", "c", "d", "e", "f">>
UpperHexDigits ==
    <<"0", "1", "2", "3", "4", "5", "6", "7", "8", "9", "A", "B", "C", "D", "E", "F">>
IsHexDigit(c) ==
    \E k \in 1..16 : HexDigits[k] = c \/ UpperHexDigits[k] = c
HexDigitValue(c) ==
    (CHOOSE k \in 1..16 : HexDigits[k] = c \/ UpperHexDigits[k] = c) - 1
from_str_radix(hex) ==
    IF Len(hex) = 1 /\ IsHexDigit(hex[1]) THEN Some(HexDigitValue(hex[1]))
    ELSE IF Len(hex) = 2 /\ IsHexDigit(hex[1]) /\ IsHexDigit(hex[2])
    THEN Some(16 * HexDigitValue(hex[1]) + HexDigitValue(hex[2]))
    ELSE IF Len(hex) = 2 /\ hex[1] = "+" /\ IsHexDigit(hex[2])
    THEN Some(HexDigitValue(hex[2]))
    ELSE None

\* byte as char, for the bytes of the characters credentials are drawn from.
Chr(byte) == CHOOSE c \in DOMAIN Ord : Ord[c] = byte

\* urlencoding_decode: %xx becomes the character of that byte (a '%' not
\* followed by hex stays as it is), '+' a space, anything else itself.
RECURSIVE urlencoding_decode(_)
urlencoding_decode(s) ==
    IF s = <<>> THEN <<>>
    ELSE IF Head(s) = "%"
    THEN LET hex == SubSeq(s, 2, IF Len(s) < 3 THEN Len(s) ELSE 3)
             rest == SubSeq(s, 2 + Len(hex), Len(s))
         IN  IF from_str_radix(hex) # None
             THEN <<Chr(from_str_radix(hex)[1])>> \o urlencoding_decode(rest)
             ELSE <<"%">> \o hex \o urlencoding_decode(rest)
    ELSE IF Head(s) = "+" THEN <<" ">> \o urlencoding_decode(Tail(s))
    ELSE <<Head(s)>> \o urlencoding_decode(Tail(s))

\* One key=value pair of the form body; value is None when the pair has
\* no '='.
FormPair(key, value) == [key |-> key, value |-> value]

\* handle_login's loop over the pairs: the last pair with the key decides,
\* its value decoded, a missing value read as the empty string.
FormField(body, key) ==
    LET hits == SelectSeq(body, LAMBDA pair : pair.key = key)
    IN  IF hits = <<>> THEN None
        ELSE IF hits[Len(hits)].value = None THEN Some(<<>>)
        ELSE Some(urlencoding_decode(hits[Len(hits)].value[1]))

\* The form bodies the model posts: empty, one field only, both fields,
\* an empty or missing value, a field given twice, percent-encoded values.
FormBodies ==
    {<<FormPair("", None)>>,
     <<FormPair("username", Some(<<"a", "l">>))>>,
     <<FormPair("password", Some(<<"p", "w">>))>>,
     <<FormPair("username", Some(<<"a", "l">>)), FormPair("password", Some(<<"p", "w">>))>>,
     <<FormPair("username", Some(<<"b", "o", "b">>)), FormPair("password", Some(<<"p", "w">>))>>,
     <<FormPair("username", Some(<<>>)), FormPair("password", Some(<<"p", "w">>))>>,
     <<FormPair("username", Some(<<"a", "l">>)), FormPair("password", Some(<<>>))>>,
     <<FormPair("username", Some(<<"a", "l">>)), FormPair("password", None)>>,
     <<FormPair("username", Some(<<"a", "l">>)), FormPair("password", Some(<<"p", "w">>)),
       FormPair("password", Some(<<>>))>>,
     <<FormPair("username", Some(<<"%", "6", "1", "l">>)),
       FormPair("password", Some(<<"p", "%", "7", "7">>))>>}

\* A slip: only the username is checked for being empty.
CredentialsGivenAllowsEmptyPassword(username, password) ==
    /\ username # None /\ password # None
    /\ username[1] # <<>>

\* (Some(u), Some(p)) if !u.is_empty() && !p.is_empty()
CredentialsGiven(username, password) ==
    /\ username # None /\ password # None
    /\ username[1] # <<>> /\ password[1] # <<>>

\* A slip: the loop hands each request to a thread of its own and takes the
\* next one while earlier ones are still being handled.
TakesNextRequestWhileHandling(pc) == pc \in {"accept", "login", "mail"}

\* main: for request in server.incoming_requests() { handle_request(..) }.
\* The next request is taken when handle_request has returned.
TakesNextRequest(pc) == pc = "accept"

\* The static file, and /login for anything but a POST: no session needed.
RouteOpen(request) ==
    /\ TakesNextRequest(wPc)
    /\ wHandled < MaxRequests
    /\ \/ request.path = StaticPath
       \/ request.path = LoginPath /\ request.method # "POST"
    /\ wHandled' = wHandled + 1
    /\ wReq' = request
    /\ wGate' = "open"
    /\ wResp' = IF request.path = StaticPath THEN Page("htmx_js")
                ELSE IF request.method = "GET" THEN Page("login_page")
                ELSE Page("not_found")
    /\ UNCHANGED <<wPc, wClient, wLoginTokens, wLoginClient, wLoggedOut>>
    /\ UNCHANGED <<discoverVars, storeVars>>

\* POST /login, handle_login up to the call of discover: without a
\* non-empty username and password the login page is served with an error.
LoginSubmit(request) ==
    /\ TakesNextRequest(wPc)
    /\ wHandled < MaxRequests
    /\ request.path = LoginPath /\ request.method = "POST"
    /\ generated # Tokens   \* the model's supply of ids bounds the logins
    /\ wHandled' = wHandled + 1
    /\ wReq' = request
    /\ wGate' = "open"
    /\ IF CredentialsGiven(request.username, request.password)
       THEN /\ wPc' = "login"
            /\ wResp' = NoResponse
            /\ CallDiscover(request.username[1], request.password[1])
       ELSE /\ wPc' = "accept"
            /\ wResp' = Page("login_error")
            /\ UNCHANGED discoverVars
    /\ UNCHANGED <<wClient, wLoginTokens, wLoginClient, wLoggedOut>>
    /\ UNCHANGED storeVars

\* handle_login after discover returned: on Ok the session is created and
\* the main page served with the session cookie, on Err the login page with
\* the error.
LoginFinish ==
    /\ wPc = "login"
    /\ dPc = "done"
    /\ IF dResult.kind = "Ok"
       THEN LET session == Session(dUser, dPass, dClient[1].api_url,
                                   dClient[1].account_id)
                id == now_v7(generated)
            IN    /\ CanWrite(lockWriter, lockReaders)
                  /\ generated' = generated \cup {id}
                  /\ sessions' = MapInsert(sessions, id, session)
                  /\ returned' = returned \cup {id}
                  /\ createdWith' = MapInsert(createdWith, id, session)
                  /\ wResp' = HttpResponse("main_page", Some(id), FALSE)
                  /\ wLoginTokens' = wLoginTokens \cup {id}
                  /\ wLoginClient' = MapInsert(wLoginClient, id, dClient[1])
                  /\ UNCHANGED removeReturned
       ELSE /\ wResp' = Page("login_error")
            /\ UNCHANGED <<sessions, generated, returned, createdWith, removeReturned,
                           wLoginTokens, wLoginClient>>
    /\ wPc' = "accept"
    /\ DropDiscover
    /\ UNCHANGED <<wReq, wGate, wClient, wHandled, wLoggedOut>>
    /\ UNCHANGED storeThreadVars

\* discover panicked inside handle_login: the panic unwinds main's loop,
\* which runs the handlers itself, and the process ends.
LoginPanics ==
    /\ wPc = "login"
    /\ dPc = "panicked"
    /\ wPc' = "aborted"
    /\ UNCHANGED <<wReq, wGate, wResp, wClient, wHandled, wLoginTokens, wLoginClient, wLoggedOut>>
    /\ UNCHANGED <<discoverVars, storeVars>>

\* The handler route dispatches to once the session check has passed, up to
\* its response, or up to its call of the mail server: serve_main_page,
\* handle_logout, the mail handlers (get_client first), serve_404.
RunHandler(request) ==
    LET session_id == request.cookie[1]
        handler == HandlerOf(request.method, request.path)
    IN  CASE handler = "serve_main_page" ->
               /\ CanRead(lockWriter, lockReaders)
               /\ wResp' = Page("main_page")
               /\ wPc' = "accept"
               /\ UNCHANGED <<wClient, wLoggedOut, sessions, removeReturned>>
          [] handler = "handle_logout" ->
               /\ CanWrite(lockWriter, lockReaders)
               /\ sessions' = MapRemove(sessions, session_id)
               /\ removeReturned' = removeReturned \cup {session_id}
               /\ wLoggedOut' = wLoggedOut \cup {session_id}
               /\ wResp' = HttpResponse("login_page", None, TRUE)
               /\ wPc' = "accept"
               /\ UNCHANGED wClient
          [] handler \in MailHandlers ->
               /\ CanRead(lockWriter, lockReaders)
               /\ wClient' = get_client(sessions, session_id)
               /\ IF get_client(sessions, session_id) = None
                  THEN /\ wResp' = redirect_to_login(request)
                       /\ wPc' = "accept"
                  ELSE /\ wResp' = NoResponse
                       /\ wPc' = "mail"
               /\ UNCHANGED <<wLoggedOut, sessions, removeReturned>>
          [] OTHER ->
               /\ wResp' = Page("not_found")
               /\ wPc' = "accept"
               /\ UNCHANGED <<wClient, wLoggedOut, sessions, removeReturned>>

\* Every other path: route's session check, then the handler. Handlers
\* that call the mail server stop here, before that call.
RouteAuthenticated(request) ==
    /\ TakesNextRequest(wPc)
    /\ wHandled < MaxRequests
    /\ request.path # StaticPath /\ request.path # LoginPath
    /\ wHandled' = wHandled + 1
    /\ wReq' = request
    /\ UNCHANGED discoverVars
    /\ UNCHANGED <<wLoginTokens, wLoginClient, generated, returned, createdWith, storeThreadVars>>
    /\ IF ~SessionCheck(request.cookie, sessions)
       THEN /\ wGate' = "rejected"
            /\ wResp' = redirect_to_login(request)
            /\ UNCHANGED <<wPc, wClient, wLoggedOut, sessions, removeReturned>>
       ELSE /\ wGate' = "accepted"
            /\ RunHandler(request)

\* The mail handler's calls to the mail server return; the page or an error
\* fragment is served.
MailReply(ok) ==
    /\ wPc = "mail"
    /\ wResp' = IF ok THEN Page(HandlerOf(wReq.method, wReq.path)) ELSE Page("error")
    /\ wClient' = None
    /\ wPc' = "accept"
    /\ UNCHANGED <<wReq, wGate, wHandled, wLoginTokens, wLoginClient, wLoggedOut>>
    /\ UNCHANGED <<discoverVars, storeVars>>

\* What the mail server answers during a login in this specification.
LoginResponses ==
    {Response("Ok", 200, None, SessionPrimary),
     Response("Ok", 200, None, SessionScan),
     Response("Ok", 200, None, GarbageBody),
     Response("Ok", 302, Some(<<"/", "s">>), EmptyBody),
     Response("Status", 401, None, EmptyBody),
     Response("Status", 500, None, SplitAt200Body),
     TransportFailure}

OpenRequests ==
    {Request(line[1], line[2], cookie, FALSE, None, None) :
        line \in OpenRequestLines, cookie \in {None, Some(ForgedToken)}}
SessionRequests ==
    {Request(line[1], line[2], cookie, htmx, None, None) :
        line \in SessionRequestLines, cookie \in CookieValues, htmx \in BOOLEAN}
LoginRequests ==
    {Request("POST", LoginPath, None, FALSE,
             FormField(body, "username"), FormField(body, "password")) :
        body \in FormBodies}

InitWeb ==
    /\ ResolveIdle
    /\ DiscoverIdle
    /\ StoreIdle
    /\ WebIdle
    /\ MailIdle

NextWeb ==
    \/ (\E request \in OpenRequests : RouteOpen(request)) /\ UNCHANGED <<resolveVars, mailVars>>
    \/ (\E request \in LoginRequests : LoginSubmit(request)) /\ UNCHANGED <<resolveVars, mailVars>>
    \/ DiscoverStart /\ UNCHANGED <<resolveVars, storeVars, webVars, mailVars>>
    \/ (\E resp \in LoginResponses : Hop(resp)) /\ UNCHANGED <<resolveVars, storeVars, webVars, mailVars>>
    \/ TooManyRedirects /\ UNCHANGED <<resolveVars, storeVars, webVars, mailVars>>
    \/ DiscoverParse /\ UNCHANGED <<resolveVars, storeVars, webVars, mailVars>>
    \/ LoginFinish /\ UNCHANGED <<resolveVars, mailVars>>
    \/ LoginPanics /\ UNCHANGED <<resolveVars, mailVars>>
    \/ (\E request \in SessionRequests : RouteAuthenticated(request)) /\ UNCHANGED <<resolveVars, mailVars>>
    \/ (\E ok \in BOOLEAN : MailReply(ok)) /\ UNCHANGED <<resolveVars, mailVars>>

SpecWeb == InitWeb /\ [][NextWeb]_vars

InitMail ==
    /\ ResolveIdle
    /\ DiscoverIdle
    /\ StoreIdle
    /\ WebIdle
    /\ MailIdle

NextMail ==
    \/ (\E op \in Operations : CallOperation(op)) /\ UNCHANGED otherThanMail
    \/ (\E handler \in Handlers : HandlerStarts(handler)) /\ UNCHANGED otherThanMail
    \/ OperationShortCircuits /\ UNCHANGED otherThanMail
    \/ (\E response \in ApiResponses : ApiCall(response)) /\ UNCHANGED otherThanMail
    \/ CallerContinues /\ UNCHANGED otherThanMail

SpecMail == InitMail /\ [][NextMail]_vars

\* The ids a caller can pass: tokens create has returned, or a forged one.
KnownIds == returned \cup {ForgedToken}

InitStore ==
    /\ ResolveIdle
    /\ DiscoverIdle
    /\ StoreIdle
    /\ WebIdle
    /\ MailIdle

NextStore ==
    \/ (\E th \in Threads, s \in Sessions : CreateNewId(th, s)) /\ UNCHANGED otherThanStore
    \/ (\E th \in Threads : CreateLock(th)) /\ UNCHANGED otherThanStore
    \/ (\E th \in Threads : CreateInsertBegin(th)) /\ UNCHANGED otherThanStore
    \/ (\E th \in Threads : CreateInsertEnd(th)) /\ UNCHANGED otherThanStore
    \/ (\E th \in Threads, id \in KnownIds, f \in Projectors : GetLock(th, id, f))
           /\ UNCHANGED otherThanStore
    \/ (\E th \in Threads : GetRead(th)) /\ UNCHANGED otherThanStore
    \/ (\E th \in Threads, id \in KnownIds : ExistsLock(th, id)) /\ UNCHANGED otherThanStore
    \/ (\E th \in Threads : ExistsRead(th)) /\ UNCHANGED otherThanStore
    \/ (\E th \in Threads, id \in KnownIds : RemoveLock(th, id)) /\ UNCHANGED otherThanStore
    \/ (\E th \in Threads : RemoveTakeBegin(th)) /\ UNCHANGED otherThanStore
    \/ (\E th \in Threads : RemoveTakeEnd(th)) /\ UNCHANGED otherThanStore
    \/ (\E th \in Threads : Return(th)) /\ UNCHANGED otherThanStore

SpecStore == InitStore /\ [][NextStore]_vars

(***************************************************************************)
(* handle_request called beside other threads. AppState sits in an Arc     *)
(* and the store behind an RwLock, so the handlers are written to be run   *)
(* from several threads. Here one thread runs route and the handler as two *)
(* steps (exists, then the handler's own store call), and the other        *)
(* threads make the store calls of logins and logouts in between.          *)
(***************************************************************************)
\* route for the paths that need a session: sessions.exists under the read
\* guard; the handler follows as a step of its own.
RouteCheck(request) ==
    /\ TakesNextRequest(wPc)
    /\ wHandled < MaxSharedRequests
    /\ request.path # StaticPath /\ request.path # LoginPath
    /\ CanRead(lockWriter, lockReaders)
    /\ wHandled' = wHandled + 1
    /\ wReq' = request
    /\ IF ~SessionCheck(request.cookie, sessions)
       THEN /\ wGate' = "rejected"
            /\ wResp' = redirect_to_login(request)
            /\ UNCHANGED wPc
       ELSE /\ wGate' = "accepted"
            /\ wResp' = NoResponse
            /\ wPc' = "routed"
    /\ UNCHANGED <<wClient, wLoginTokens, wLoginClient, wLoggedOut>>
    /\ UNCHANGED <<discoverVars, storeVars>>

\* The handler route dispatched to, some time after the check.
HandlerRuns ==
    /\ wPc = "routed"
    /\ RunHandler(wReq)
    /\ UNCHANGED <<wReq, wGate, wHandled, wLoginTokens, wLoginClient>>
    /\ UNCHANGED <<generated, returned, createdWith, storeThreadVars>>
    /\ UNCHANGED discoverVars

\* The requests sent here: those of the handlers that use the store, each
\* with a token some create handed out (still stored, or removed since).
SharedRequestLines ==
    {<<"GET", "/">>, <<"POST", "/logout">>, <<"GET", "/mailboxes">>,
     <<"GET", "/mailbox/inbox/emails">>, <<"GET", "/email/e1">>}
SharedRequests ==
    {Request(line[1], line[2], Some(id), htmx, None, None) :
        line \in SharedRequestLines, id \in returned, htmx \in BOOLEAN}

\* The thread that makes the store calls of other requests' logins and
\* logouts while the handler above runs.
OtherThreads == {1}

InitShared ==
    /\ ResolveIdle
    /\ DiscoverIdle
    /\ StoreIdle
    /\ WebIdle
    /\ MailIdle

NextShared ==
    \/ (\E request \in SharedRequests : RouteCheck(request)) /\ UNCHANGED <<resolveVars, mailVars>>
    \/ HandlerRuns /\ UNCHANGED <<resolveVars, mailVars>>
    \/ (\E ok \in BOOLEAN : MailReply(ok)) /\ UNCHANGED <<resolveVars, mailVars>>
    \/ (\E th \in OtherThreads, s \in Sessions : CreateNewId(th, s)) /\ UNCHANGED otherThanStore
    \/ (\E th \in OtherThreads : CreateLock(th)) /\ UNCHANGED otherThanStore
    \/ (\E th \in OtherThreads : CreateInsertBegin(th)) /\ UNCHANGED otherThanStore
    \/ (\E th \in OtherThreads : CreateInsertEnd(th)) /\ UNCHANGED otherThanStore
    \/ (\E th \in OtherThreads, id \in KnownIds : RemoveLock(th, id)) /\ UNCHANGED otherThanStore
    \/ (\E th \in OtherThreads : RemoveTakeBegin(th)) /\ UNCHANGED otherThanStore
    \/ (\E th \in OtherThreads : RemoveTakeEnd(th)) /\ UNCHANGED otherThanStore
    \/ (\E th \in OtherThreads : Return(th)) /\ UNCHANGED otherThanStore

SpecShared == InitShared /\ [][NextShared]_vars

InitDiscover ==
    /\ ResolveIdle
    /\ \E username \in Usernames, password \in Passwords :
         DiscoverCalled(username, password)
    /\ StoreIdle
    /\ WebIdle
    /\ MailIdle

NextDiscover ==
    \/ DiscoverStart /\ UNCHANGED otherThanDiscover
    \/ (\E resp \in Responses : Hop(resp)) /\ UNCHANGED otherThanDiscover
    \/ TooManyRedirects /\ UNCHANGED otherThanDiscover
    \/ DiscoverParse /\ UNCHANGED otherThanDiscover

SpecDiscover == InitDiscover /\ [][NextDiscover]_vars

(***************************************************************************)
(* resolve_redirect on drawn inputs: a base URL scheme://host[/path] and a *)
(* Location value.                                                         *)
(***************************************************************************)
SeqsUpTo(A, n) == UNION {[1..k -> A] : k \in 0..n}

Schemes == {HttpPrefix, HttpsPrefix}
Hosts == {<<"m">>, <<"m", ".", "x">>}
\* A path is empty or starts with '/'.
BasePaths == {<<>>} \cup {SlashStr \o p : p \in SeqsUpTo({"/", "p"}, MaxPathLen - 1)}
LocPrefixes == {<<>>, HttpPrefix, HttpsPrefix, <<"f", "t", "p", ":", "/", "/">>}
Locations == {pre \o l : pre \in LocPrefixes, l \in SeqsUpTo({"/", "s"}, MaxLocLen)}

rBase == rScheme \o rHost \o rPath

InitResolve ==
    /\ rPc = "call"
    /\ rScheme \in Schemes
    /\ rHost \in Hosts
    /\ rPath \in BasePaths
    /\ rLocation \in Locations
    /\ rResolved = <<>>
    /\ DiscoverIdle
    /\ StoreIdle
    /\ WebIdle
    /\ MailIdle

Resolve ==
    /\ rPc = "call"
    /\ rResolved' = resolve_redirect(rBase, rLocation)
    /\ rPc' = "done"
    /\ UNCHANGED <<rScheme, rHost, rPath, rLocation>>
    /\ UNCHANGED otherThanResolve

NextResolve == Resolve

SpecResolve == InitResolve /\ [][NextResolve]_vars

(***************************************************************************)
(* Claims.                                                                 *)
(***************************************************************************)
IsAbsoluteLocation(l) == starts_with(l, HttpPrefix) \/ starts_with(l, HttpsPrefix)

\* s cut after its last '/': the longest prefix of s that ends with '/'.
CutAfterLastSlash(s) ==
    CHOOSE p \in {SubSeq(s, 1, k) : k \in 1..Len(s)} :
        /\ p[Len(p)] = "/"
        /\ \A k \in (Len(p) + 1)..Len(s) : s[k] # "/"

\* C5: resolve_redirect(base, location) returns location unchanged when it
\* starts with http:// or https://; else, when location starts with '/', the
\* scheme://host of base followed by location; otherwise base cut after its
\* last '/' followed by location.
C5_ResolveRedirectCases ==
    rPc = "done" =>
        IF IsAbsoluteLocation(rLocation)
        THEN rResolved = rLocation
        ELSE IF rLocation # <<>> /\ rLocation[1] = "/"
        THEN rResolved = rScheme \o rHost \o rLocation
        ELSE rResolved = CutAfterLastSlash(rBase) \o rLocation

\* C5 witness: a relative location resolved against a base with a directory.
C5_Witness ==
    /\ rPc = "done"
    /\ rLocation = <<"s">>
    /\ rPath = <<"/", "p", "/">> \o <<"p">>
    /\ rResolved = rScheme \o rHost \o <<"/", "p", "/", "s">>

\* C6 as claimed: for a base without a path segment and any location that is
\* not an absolute http(s) URL, the result is base followed by location (so
\* the host of base is kept).
C6_NoPathFallsBackToConcatenation ==
    (rPc = "done" /\ rPath = <<>> /\ ~IsAbsoluteLocation(rLocation))
        => rResolved = rBase \o rLocation

(***************************************************************************)
(* Claims about discovery.                                                 *)
(***************************************************************************)
IsRedirectStatus(status) == status >= 300 /\ status < 400

\* Every response received so far was a 3xx carrying a Location header.
OnlyRedirectsSoFar ==
    \A k \in 1..Len(dResps) :
        IsRedirectStatus(dResps[k].status) /\ dResps[k].location # None

\* C1: when every response is a 3xx with a Location header, discover ends
\* only after exactly 5 GET requests, with the Http error "Too many
\* redirects"; a 6th request is never issued, whatever the responses.
C1_AlwaysRedirectedFiveRequests ==
    /\ Len(dReqs) <= 5
    /\ (OnlyRedirectsSoFar /\ dPc # "fetch" /\ dPc # "idle") =>
           /\ dPc = "done"
           /\ Len(dReqs) = 5
           /\ dResult = JmapError("Http", "Too many redirects", 0)
           /\ dClient = None

\* C1 witness: five redirects were followed and discover has failed.
C1_Witness ==
    /\ dPc = "done"
    /\ OnlyRedirectsSoFar
    /\ Len(dResps) = 5
    /\ dResult.msg = "Too many redirects"

\* C2: a 401 answer to the k-th request ends discover at once with the
\* authentication failure; the k-th request stays the last one.
C2_UnauthorizedEndsDiscovery ==
    \A k \in 1..Len(dResps) :
        dResps[k].status = 401 =>
            /\ k = Len(dResps)
            /\ Len(dReqs) = k
            /\ dPc = "done"
            /\ dResult = JmapError("Http", "Authentication failed (401 Unauthorized)", 0)
            /\ dClient = None

\* C2 witness: the third request, reached over two redirects, got a 401.
C2_Witness ==
    /\ Len(dResps) = 3
    /\ dResps[3].status = 401
    /\ dPc = "done"

\* C3: every GET of one discover call carries the Basic header of the
\* username and password given to discover, whatever host it goes to.
C3_SameAuthorizationOnEveryHop ==
    \A k \in 1..Len(dReqs) :
        dReqs[k].auth = Some(BasicPrefix \o Base64Encode(
            [n \in 1..(Len(dUser) + 1 + Len(dPass)) |->
                Ord[(dUser \o <<":">> \o dPass)[n]]]))

\* C3 witness: the second request went to the other host j with the header
\* "Basic YWw6cHc=" of al:pw.
C3_Witness ==
    /\ Len(dReqs) >= 2
    /\ dUser = <<"a", "l">>
    /\ dPass = <<"p", "w">>
    /\ starts_with(dReqs[2].url, <<"h", "t", "t", "p", "s", ":", "/", "/", "j", "/">>)
    /\ dReqs[2].auth =
           Some(<<"B", "a", "s", "i", "c", " ", "Y", "W", "w", "6", "c", "H", "c", "=">>)

\* C4: a 2xx answer with an empty body ends discover with the Http error
\* "empty response"; the body never reaches the JSON parser, so no Parse
\* error comes of it.
C4_EmptyBodyIsHttpError ==
    \A k \in 1..Len(dResps) :
        (/\ dResps[k].wrap = "Ok"
         /\ dResps[k].status >= 200 /\ dResps[k].status < 300
         /\ dResps[k].body.kind = "empty") =>
            /\ k = Len(dResps)
            /\ dPc = "done"
            /\ dResult = JmapError("Http", "Server returned empty response",
                                    dResps[k].status)
            /\ dParsed = 0

\* C4 witness: a redirect led to a 200 with an empty body.
C4_Witness ==
    /\ Len(dResps) = 2
    /\ dResps[2].status = 200
    /\ dResps[2].body.kind = "empty"
    /\ dResult.kind = "Http"

(***************************************************************************)
(* Claims about the session store.                                         *)
(***************************************************************************)
\* C9: once a remove(token) has returned, the token is not in the map, and
\* every exists and get that reads the map for it finds nothing, for the
\* rest of the run.
C9_RemovedStaysRemoved ==
    [][/\ \A id \in removeReturned' : ~contains_key(sessions', id)
       /\ \A th \in Threads :
            (/\ tPc[th] \in {"get_read", "exists_read"}
             /\ tPc'[th] = "ret"
             /\ tCall[th].id \in removeReturned) => ~tRet'[th].found]_vars

\* C9 witness: a token was created and removed, a later create stored
\* another session, and an exists on the removed token has answered false.
C9_Witness ==
    \E th \in Threads :
        /\ tPc[th] = "ret"
        /\ tCall[th].op = "exists"
        /\ tCall[th].id \in returned \cap removeReturned
        /\ ~tRet[th].found
        /\ DOMAIN sessions # {}

\* C10: a get returns none or its projector applied to exactly the Session
\* that was passed to create with that token, also when it races a remove
\* or a create; and whenever a reader holds the lock every entry of the map
\* is whole (no partially inserted or partially removed entry is visible).
C10_GetSeesWholeRecords ==
    /\ \A th \in Threads :
          (tPc[th] = "ret" /\ tCall[th].op = "get" /\ tRet[th].found) =>
              /\ tCall[th].id \in DOMAIN createdWith
              /\ tRet[th].value = Project(tCall[th].f, createdWith[tCall[th].id])
    /\ lockReaders # {} =>
          \A id \in DOMAIN sessions :
              id \in DOMAIN createdWith /\ sessions[id] = createdWith[id]

\* C10 witness: a get has its value for a token while another thread is in
\* the middle of removing that token (the entry is torn).
C10_Witness ==
    \E th \in Threads, other \in Threads :
        /\ tPc[th] = "ret" /\ tCall[th].op = "get" /\ tRet[th].found
        /\ tPc[other] = "remove_take_end"
        /\ tCall[other].id = tCall[th].id
        /\ sessions[tCall[th].id] # createdWith[tCall[th].id]


\* The token of the request being handled, if it carries one.
HasLiveLoginToken(request) ==
    /\ request.cookie # None
    /\ request.cookie[1] \in wLoginTokens \ wLoggedOut

\* C7: a request on an authenticated route is accepted if and only if its
\* token was handed out by a login whose discover succeeded and no logout
\* for it has completed since; a rejected request gets redirect_to_login;
\* the store changes only when a successful login inserts or a logout
\* removes, so a login that fails or lacks credentials leaves it as it was
\* and sets no cookie.
C7_AcceptedIffLoggedInAndNotLoggedOut ==
    [][ /\ (wHandled' = wHandled + 1 /\ wGate' # "open") =>
              /\ wGate' = "accepted" <=> HasLiveLoginToken(wReq')
              /\ wGate' = "rejected" => wResp' = redirect_to_login(wReq')
        /\ sessions' # sessions =>
              \/ wPc = "login" /\ dResult.kind = "Ok"
              \/ wGate' = "accepted" /\ HandlerOf(wReq'.method, wReq'.path) = "handle_logout"
        /\ (wReq'.path = LoginPath /\ wPc' = "accept" /\ wResp'.kind = "login_error") =>
              /\ sessions' = sessions
              /\ wResp'.set_cookie = None
              /\ wLoginTokens' = wLoginTokens
      ]_vars

\* C7 witness: a token a login handed out, logged out since, is sent to a
\* mail route and is redirected to login.
C7_Witness ==
    /\ wGate = "rejected"
    /\ wReq.cookie # None
    /\ wReq.cookie[1] \in wLoginTokens \cap wLoggedOut
    /\ HandlerOf(wReq.method, wReq.path) \in MailHandlers
    /\ wResp = redirect_to_login(wReq)

\* The tokens some remove call has been started for.
RemoveCalled ==
    removeReturned \cup {tCall[th].id : th \in {x \in Threads : tCall[x].op = "remove"}}

\* C11: there is no expiry. A token create has returned, and for which no
\* remove has been called, is in the map with the Session it was created
\* with, and every exists and get for it finds it, whatever creates, gets,
\* exists and removes of other tokens ran in between.
C11_KeptUntilRemoved ==
    /\ \A id \in returned \ RemoveCalled :
          contains_key(sessions, id) /\ sessions[id] = createdWith[id]
    /\ \A th \in Threads :
          (/\ tPc[th] = "ret"
           /\ tCall[th].op \in {"get", "exists"}
           /\ tCall[th].id \in returned \ RemoveCalled) => tRet[th].found

\* C11 witness: after another token was created and removed, a get for a
\* token that was never removed has returned a value.
C11_Witness ==
    \E th \in Threads :
        /\ tPc[th] = "ret"
        /\ tCall[th].op = "get"
        /\ tCall[th].id \in returned \ RemoveCalled
        /\ tRet[th].found
        /\ (returned \cap removeReturned) \ {tCall[th].id} # {}

\* C25, in steps: a get that reads the map returns none when the token is
\* not in it and otherwise its projector applied to the record stored
\* under the token; no step of a get or an exists changes the map.
C25_GetStep ==
    \A th \in Threads :
        /\ (tPc[th] = "get_read" /\ tPc'[th] = "ret") =>
              /\ ~contains_key(sessions, tCall[th].id) => tRet'[th] = NoRet
              /\ contains_key(sessions, tCall[th].id) =>
                    tRet'[th] = Ret(TRUE, Project(tCall[th].f, sessions[tCall[th].id]))
        /\ (tPc'[th] # tPc[th] /\ tCall'[th].op \in {"get", "exists"}) =>
              sessions' = sessions
        /\ (tPc'[th] # tPc[th] /\ tCall[th].op \in {"get", "exists"}) =>
              sessions' = sessions

\* C25, in states: what a get returned is a value of its own. It stays the
\* projection of the record the token was created with when the record has
\* been removed from the map since; an exists returned whether the token
\* was in the map, and nothing of the record.
C25_GetState ==
    \A th \in Threads :
        /\ (tPc[th] = "ret" /\ tCall[th].op = "get") =>
              \/ tRet[th] = NoRet
              \/ /\ tRet[th].found
                 /\ tRet[th].value \in {Project(tCall[th].f, s) : s \in Sessions}
                 /\ tRet[th].value = Project(tCall[th].f, createdWith[tCall[th].id])
        /\ (tPc[th] = "ret" /\ tCall[th].op = "exists") => tRet[th].value = <<>>

\* C25: get(token, f) returns none for an absent token and f of the stored
\* record, as a value, for a present one; get and exists never change the
\* contents of the store.
C25_GetProjectsAndLeavesStore ==
    []C25_GetState /\ [][C25_GetStep]_vars

\* C25 witness: a get for the forged token has returned none while another
\* get holds the client projected from a record that a remove has deleted
\* since.
C25_Witness ==
    \E th \in Threads, other \in Threads :
        /\ tPc[th] = "ret" /\ tCall[th].op = "get" /\ tRet[th].found
        /\ tCall[th].f = "client"
        /\ tCall[th].id \in removeReturned
        /\ ~contains_key(sessions, tCall[th].id)
        /\ tRet[th].value = Project("client", createdWith[tCall[th].id])
        /\ tPc[other] = "ret" /\ tCall[other].op = "get"
        /\ tCall[other].id = ForgedToken
        /\ tRet[other] = NoRet

\* C26, in steps. When a remove takes the lock the token is in the map
\* exactly if create returned it and no remove has completed for it. The
\* remove then returns the record the token was created with and the map
\* loses that key and nothing else; otherwise it returns none and no step
\* of it changes the map.
C26_RemoveStep ==
    \A th \in Threads :
        /\ (tPc[th] = "idle" /\ tPc'[th] = "remove_take") =>
              /\ sessions' = sessions
              /\ contains_key(sessions, tCall'[th].id) <=>
                     tCall'[th].id \in returned \ removeReturned
        /\ (tPc[th] = "remove_take_end" /\ tPc'[th] = "ret") =>
              /\ tRet'[th].found <=> tCall[th].id \in returned \ removeReturned
              /\ tRet'[th].found => tRet'[th].value = createdWith[tCall[th].id]
              /\ ~tRet'[th].found => tRet'[th] = NoRet
              /\ DOMAIN sessions' = DOMAIN sessions \ {tCall[th].id}
              /\ \A id \in DOMAIN sessions' : sessions'[id] = sessions[id]
        /\ (/\ tCall[th].op = "remove"
            /\ tPc'[th] # tPc[th]
            /\ ~contains_key(sessions, tCall[th].id)) => sessions' = sessions

\* C26, in states: of the removes of one token that have returned and not
\* yet been taken by their callers, at most one holds the record, and a
\* token a remove has returned for is not in the map.
C26_RemoveState ==
    /\ \A th \in Threads, other \in Threads :
          (/\ th # other
           /\ tPc[th] = "ret" /\ tCall[th].op = "remove" /\ tRet[th].found
           /\ tPc[other] = "ret" /\ tCall[other].op = "remove"
           /\ tCall[other].id = tCall[th].id) => ~tRet[other].found
    /\ \A id \in removeReturned : ~contains_key(sessions, id)

\* C26: remove(token) deletes and returns the record of a present token,
\* returns none and changes nothing for an absent one; a remove after the
\* first returns none, so of two removes of one token exactly one, the
\* first to take the lock, receives the record.
C26_RemoveReturnsRecordOnce ==
    []C26_RemoveState /\ [][C26_RemoveStep]_vars

\* C26 witness: two threads called remove for the same created token; both
\* have returned, one with the record and the other with none, and the
\* other session is still in the store.
C26_Witness ==
    \E th \in Threads, other \in Threads :
        /\ tPc[th] = "ret" /\ tCall[th].op = "remove"
        /\ tCall[th].id \in returned
        /\ tRet[th] = Ret(TRUE, createdWith[tCall[th].id])
        /\ tPc[other] = "ret" /\ tCall[other].op = "remove"
        /\ tCall[other].id = tCall[th].id
        /\ tRet[other] = NoRet
        /\ DOMAIN sessions # {}

\* The threads that are inside create or remove with the write guard, and
\* those inside get or exists with a read guard.
HoldingForWrite ==
    {th \in Threads :
        tPc[th] \in {"create_insert", "create_insert_end", "remove_take", "remove_take_end"}}
HoldingForRead == {th \in Threads : tPc[th] \in {"get_read", "exists_read"}}

\* C27: a create or remove holds the map alone, never together with
\* another create, remove, get or exists, and is not let in while anyone
\* holds it; get and exists do hold it together (the witness has every
\* thread reading at once).
C27_ManyReadersOneWriter ==
    /\ Cardinality(HoldingForWrite) <= 1
    /\ HoldingForWrite # {} => HoldingForRead = {}
    /\ HoldingForWrite = {th \in Threads : lockWriter = Some(th)}
    /\ HoldingForRead = lockReaders
    /\ \A th \in Threads :
          (tPc[th] = "idle" /\ HoldingForWrite # {}) =>
              /\ ~ENABLED GetLock(th, ForgedToken, "username")
              /\ ~ENABLED ExistsLock(th, ForgedToken)
              /\ ~ENABLED RemoveLock(th, ForgedToken)
    /\ \A th \in Threads :
          (tPc[th] = "idle" /\ calls < MaxCalls /\ HoldingForRead # {}) =>
              ~ENABLED RemoveLock(th, ForgedToken)
    /\ \A th \in Threads :
          (tPc[th] = "create_lock" /\ HoldingForRead \cup HoldingForWrite # {}) =>
              ~ENABLED CreateLock(th)

\* C27 witness: every thread holds the map for reading at once, a get and
\* an exists among them, on a token that is in the store.
C27_Witness ==
    /\ HoldingForRead = Threads
    /\ \E th \in Threads, other \in Threads :
          /\ tCall[th].op = "get"
          /\ tCall[other].op = "exists"
          /\ tCall[th].id = tCall[other].id
          /\ contains_key(sessions, tCall[th].id)

SessionFields == {"username", "password", "api_url", "account_id"}

\* C28, in steps: the record a token was created with is never replaced,
\* and the entry under a token changes only inside the create that inserts
\* it or the remove that deletes it, behind the write guard.
C28_RecordStep ==
    /\ \A id \in DOMAIN createdWith :
          /\ id \in DOMAIN createdWith'
          /\ \A field \in SessionFields : createdWith'[id][field] = createdWith[id][field]
    /\ \A id \in DOMAIN sessions \cap DOMAIN sessions' :
          sessions'[id] # sessions[id] =>
              \E th \in Threads :
                  /\ lockWriter = Some(th)
                  /\ tCall[th].op \in {"create", "remove"}
                  /\ tCall[th].id = id
                  /\ id \notin returned \/ tCall[th].op = "remove"

\* C28, in states: whenever the map can be read, every token in it holds,
\* field for field, the record that was passed to create, and every get
\* that found the token returned the projection of that record.
C28_RecordState ==
    /\ lockWriter = None =>
          \A id \in DOMAIN sessions :
              /\ id \in returned
              /\ \A field \in SessionFields : sessions[id][field] = createdWith[id][field]
    /\ \A th \in Threads :
          (tPc[th] = "ret" /\ tCall[th].op = "get" /\ tRet[th].found) =>
              tRet[th].value =
                  IF tCall[th].f = "username"
                  THEN [username |-> createdWith[tCall[th].id].username]
                  ELSE JmapClient(createdWith[tCall[th].id].username,
                                  createdWith[tCall[th].id].password,
                                  createdWith[tCall[th].id].api_url,
                                  createdWith[tCall[th].id].account_id)

\* C28: from the create that stored it to the remove that deletes it, the
\* username, password, api_url and account_id under a token never change,
\* so every get on the token projects the record passed to create.
C28_SessionRecordImmutable ==
    []C28_RecordState /\ [][C28_RecordStep]_vars

\* C28 witness: two gets on one token, one before and one after another
\* session was created, hold the same client, that of the record the token
\* was created with.
C28_Witness ==
    \E th \in Threads, other \in Threads :
        /\ th # other
        /\ tPc[th] = "ret" /\ tCall[th].op = "get" /\ tRet[th].found
        /\ tPc[other] = "ret" /\ tCall[other].op = "get" /\ tRet[other].found
        /\ tCall[th].id = tCall[other].id
        /\ tCall[th].f = "client" /\ tCall[other].f = "client"
        /\ tRet[th].value = tRet[other].value
        /\ Cardinality(returned) = 2
        /\ sessions[tCall[th].id] = createdWith[tCall[th].id]

(***************************************************************************)
(* Claims about what discover makes of the session document.               *)
(***************************************************************************)
\* discover has parsed a session document and is over.
ParsedSessionDocument == dPc = "done" /\ dParsed = 1 /\ dBody.kind = "session"

HasPrimaryMailAccount(doc) ==
    \E k \in 1..Len(doc.primaryAccounts) : doc.primaryAccounts[k].cap = MailCapability
HasMailCapableAccount(doc) ==
    \E j \in 1..Len(doc.accounts) : MailCapability \in doc.accounts[j].caps

\* C14: when primaryAccounts has an entry for the mail capability, the
\* returned client's account id is that entry, whatever accounts holds;
\* when it has none, the account id is that of the first account whose
\* capabilities include the mail capability.
C14_PrimaryMailAccountPreferred ==
    ParsedSessionDocument =>
        /\ HasPrimaryMailAccount(dBody) =>
              /\ dClient # None
              /\ \A k \in 1..Len(dBody.primaryAccounts) :
                    dBody.primaryAccounts[k].cap = MailCapability =>
                        dClient[1].account_id = dBody.primaryAccounts[k].id
        /\ (~HasPrimaryMailAccount(dBody) /\ dClient # None) =>
              \E j \in 1..Len(dBody.accounts) :
                  /\ MailCapability \in dBody.accounts[j].caps
                  /\ dClient[1].account_id = dBody.accounts[j].id
                  /\ \A i \in 1..(j - 1) : MailCapability \notin dBody.accounts[i].caps

\* C14 witness: the document names u1 as primary mail account while the
\* first mail-capable entry of accounts is another one; the client has u1.
C14_Witness ==
    /\ ParsedSessionDocument
    /\ HasPrimaryMailAccount(dBody)
    /\ MailCapability \in dBody.accounts[1].caps
    /\ dBody.accounts[1].id # "u1"
    /\ dClient # None
    /\ dClient[1].account_id = "u1"

\* C15: a session document in which neither primaryAccounts nor any account
\* references the mail capability makes discover fail with an Api error and
\* no client; and a client discover returns has an account id that occurs
\* in the session document.
C15_NoMailAccountIsApiError ==
    /\ (/\ dParsed = 1
        /\ dBody.kind = "session"
        /\ ~HasPrimaryMailAccount(dBody)
        /\ ~HasMailCapableAccount(dBody)) =>
            /\ dPc = "done"
            /\ dResult.kind = "Api"
            /\ dClient = None
    /\ dClient # None =>
          \/ \E k \in 1..Len(dBody.primaryAccounts) :
                dClient[1].account_id = dBody.primaryAccounts[k].id
          \/ \E j \in 1..Len(dBody.accounts) :
                dClient[1].account_id = dBody.accounts[j].id

IsAbsoluteUrl(l) == starts_with(l, HttpPrefix) \/ starts_with(l, HttpsPrefix)

\* The well-known URL answered with a redirect to an absolute URL, and that
\* URL with a 200 carrying a session document that names a primary mail
\* account.
RedirectedThenSession ==
    /\ Len(dResps) >= 2
    /\ IsRedirectStatus(dResps[1].status)
    /\ dResps[1].location # None
    /\ IsAbsoluteUrl(dResps[1].location[1])
    /\ dResps[2].wrap = "Ok"
    /\ dResps[2].status = 200
    /\ dResps[2].body.kind = "session"
    /\ HasPrimaryMailAccount(dResps[2].body)

\* C16: in that run discover issues exactly two GETs, the first to the
\* well-known URL and the second to the Location target, and returns a
\* client with the document's apiUrl and its primary mail account.
C16_RedirectThenSessionEndToEnd ==
    RedirectedThenSession =>
        /\ Len(dReqs) = 2
        /\ dReqs[1].url = WellKnownUrl
        /\ dReqs[2].url = dResps[1].location[1]
        /\ dPc \in {"parse", "done"}
        /\ dPc = "done" =>
              /\ dResult = OkResult
              /\ dClient # None
              /\ dClient[1].api_url = dResps[2].body.apiUrl
              /\ dClient[1].username = dUser
              /\ dClient[1].password = dPass
              /\ \E k \in 1..Len(dResps[2].body.primaryAccounts) :
                    /\ dResps[2].body.primaryAccounts[k].cap = MailCapability
                    /\ dClient[1].account_id = dResps[2].body.primaryAccounts[k].id

\* C16 witness: 301 to https://j/s, 200 with the session document there,
\* and discover has returned the client for https://j/a and u1.
C16_Witness ==
    /\ RedirectedThenSession
    /\ dResps[1].status = 301
    /\ dPc = "done"
    /\ dReqs[2].url = <<"h", "t", "t", "p", "s", ":", "/", "/", "j", "/", "s">>
    /\ dClient = Some(JmapClient(dUser, dPass, ApiUrlA, "u1"))

\* C19: whatever the server answers, discover ends by returning Ok or an
\* Http, Parse or Api error; it never panics.
C19_DiscoverNeverPanics ==
    /\ dPc # "panicked"
    /\ dResult.kind \in {"none", "Ok", "Http", "Parse", "Api"}

\* C21: a 3xx answer without a Location header, to whichever request and
\* whether it arrives as Ok(resp) or as Err(Status), ends discover at once
\* with the Http error "Redirect without Location header"; the request it
\* answered stays the last one.
C21_RedirectWithoutLocationIsFatal ==
    \A k \in 1..Len(dResps) :
        (IsRedirectStatus(dResps[k].status) /\ dResps[k].location = None) =>
            /\ k = Len(dResps)
            /\ Len(dReqs) = k
            /\ dPc = "done"
            /\ dResult = JmapError("Http", "Redirect without Location header",
                                    dResps[k].status)
            /\ dClient = None
            /\ dParsed = 0

\* C21 witness: four redirects were followed and the fifth request, the
\* last the loop allows, got a 3xx without Location as a status error.
C21_Witness ==
    /\ Len(dResps) = 5
    /\ dResps[5].wrap = "Status"
    /\ IsRedirectStatus(dResps[5].status)
    /\ dResps[5].location = None
    /\ dResps[1].wrap = "Ok"
    /\ dResult.msg = "Redirect without Location header"
    /\ dPc = "done"

\* C22: a 4xx or 5xx answer other than 401 ends discover at once with an
\* Http error that carries the status code and a prefix of at most 200
\* bytes of the body; a transport failure ends it at once with an Http
\* error; in both cases the request it answered stays the last one.
C22_ErrorStatusIsHttpErrorWithExcerpt ==
    \A k \in 1..Len(dResps) :
        /\ (/\ dResps[k].wrap = "Status"
            /\ dResps[k].status >= 400 /\ dResps[k].status < 600
            /\ dResps[k].status # 401) =>
                /\ k = Len(dResps)
                /\ Len(dReqs) = k
                /\ dPc = "done"
                /\ dResult.kind = "Http"
                /\ dResult.code = dResps[k].status
                /\ ByteLen(dResult.excerpt) <= 200
                /\ dResult.excerpt =
                       BytePrefix(dResps[k].body.text, ByteLen(dResult.excerpt))
                /\ dClient = None
        /\ dResps[k].wrap = "Transport" =>
                /\ k = Len(dResps)
                /\ Len(dReqs) = k
                /\ dPc = "done"
                /\ dResult.kind = "Http"
                /\ dClient = None

\* The first k responses are 3xx with a Location, and response k+1 is a 2xx
\* whose body is text that is not empty.
RedirectsThenBody(k) ==
    /\ Len(dResps) >= k + 1
    /\ \A n \in 1..k :
          IsRedirectStatus(dResps[n].status) /\ dResps[n].location # None
    /\ dResps[k + 1].wrap = "Ok"
    /\ dResps[k + 1].status >= 200 /\ dResps[k + 1].status < 300
    /\ dResps[k + 1].body.kind \in {"garbage", "session"}

\* C23, in states: a chain of k redirects is followed by a further request
\* exactly when k <= 4: up to four redirects leave the fetch running, a
\* 2xx with a body after them is handed to discover (which returns the
\* client when the body is a session document naming a mail account), and
\* after five redirects no request follows and discover fails. The request
\* of hop n+1 goes to resolve_redirect(URL of hop n, Location of hop n).
C23_ChainState ==
    /\ \A k \in 0..Len(dResps) :
          RedirectsThenBody(k) =>
              /\ k <= 4
              /\ Len(dResps) = k + 1
              /\ Len(dReqs) = k + 1
              /\ dPc \in {"parse", "done", "panicked"}
              /\ dBody = dResps[k + 1].body
              /\ dUrl = dReqs[k + 1].url
              /\ (dPc = "parse") => (dResult = NoResult /\ dParsed = 0)
              /\ (dPc = "done" /\ mail_account_id(dBody) # None
                    /\ dBody.kind = "session") =>
                     /\ dResult = OkResult
                     /\ dClient # None
    /\ (OnlyRedirectsSoFar /\ Len(dResps) <= 4 /\ dPc # "idle") =>
          /\ dPc = "fetch"
          /\ LoopContinues(dI, MaxRedirects)
    /\ (OnlyRedirectsSoFar /\ Len(dResps) >= 5) =>
          /\ Len(dResps) = 5
          /\ ~LoopContinues(dI, MaxRedirects)
          /\ dResult # OkResult
          /\ dClient = None
          /\ dPc = "done" => dResult = JmapError("Http", "Too many redirects", 0)
    /\ Len(dReqs) >= 1 => dReqs[1].url = WellKnownUrl
    /\ \A n \in 1..(Len(dReqs) - 1) :
          /\ IsRedirectStatus(dResps[n].status)
          /\ dResps[n].location # None
          /\ dReqs[n + 1].url = resolve_redirect(dReqs[n].url, dResps[n].location[1])

\* C23, in steps: hops are issued one after another. A step issues at most
\* one request, and only when every earlier request has its response.
C23_ChainStep ==
    /\ Len(dReqs') <= Len(dReqs) + 1
    /\ Len(dReqs') = Len(dReqs) + 1 =>
          /\ Len(dResps) = Len(dReqs)
          /\ SubSeq(dReqs', 1, Len(dReqs)) = dReqs
          /\ SubSeq(dResps', 1, Len(dResps)) = dResps

\* C23: discovery over a redirect chain succeeds if and only if the chain
\* has at most 4 redirects; each hop goes to the resolved Location of the
\* one before, strictly in sequence.
C23_RedirectChainBoundedAndSequential ==
    []C23_ChainState /\ [][C23_ChainStep]_vars

\* C23 witness: four redirects (absolute path, then relative, then another
\* host, then relative) and a 200 with the session document on the fifth
\* request; discover returned the client.
C23_Witness ==
    /\ RedirectsThenBody(4)
    /\ dResps[1].location = Some(<<"/", "s">>)
    /\ dResps[2].location = Some(<<"s">>)
    /\ dReqs[3].url = <<"h", "t", "t", "p", "s", ":", "/", "/", "m", "/", "s">>
    /\ dResps[3].location # dResps[2].location
    /\ dPc = "done"
    /\ dResult = OkResult
    /\ dClient # None

(***************************************************************************)
(* Claims about the mail operations.                                       *)
(***************************************************************************)
\* The last response received, and whether it parsed as a JmapResponse.
LastResponse == mResps[Len(mResps)]
OperationAnswered ==
    /\ mPc \in {"returned", "done"}
    /\ mResps # <<>>
    /\ LastResponse.wrap = "Ok"
    /\ LastResponse.kind = "json"

\* The first methodResponses entry is a well-formed response to the method.
FirstEntryIs(method) ==
    /\ LastResponse.method_responses # <<>>
    /\ LastResponse.method_responses[1].name = method
    /\ LastResponse.method_responses[1].arguments.shape = method

\* C12: get_emails with an empty id list returns an empty list without a
\* POST (no Email/get request ever carries an empty id list); and when the
\* Email/query of handle_emails returns no ids, the query is the only
\* request and the empty list is rendered.
C12_EmptyIdsNoNetworkCall ==
    /\ \A k \in 1..Len(mPosts) : mPosts[k].method = "Email/get" => mPosts[k].ids # <<>>
    /\ (mOp.name = "get_emails" /\ mOp.ids = <<>> /\ mPc \in {"returned", "done"}) =>
          /\ mResult = MailOk(<<>>)
          /\ mPosts = <<>>
    /\ (/\ mHandler = "handle_emails"
        /\ mResps # <<>>
        /\ mResps[1].wrap = "Ok" /\ mResps[1].kind = "json"
        /\ mResps[1].method_responses # <<>>
        /\ mResps[1].method_responses[1].name = "Email/query"
        /\ mResps[1].method_responses[1].arguments.shape = "Email/query"
        /\ mResps[1].method_responses[1].arguments.ids = <<>>) =>
          /\ Len(mPosts) = 1
          /\ mPosts[1].method = "Email/query"
          /\ mPc = "done" => mPage = Fragment("email_list", <<>>, <<>>)

\* C12 witness: get_emails was called with no ids and has returned the
\* empty list, and nothing was sent.
C12_Witness ==
    /\ mPc = "done"
    /\ mHandler = "none"
    /\ mOp.name = "get_emails"
    /\ mOp.ids = <<>>
    /\ mResult = MailOk(<<>>)
    /\ mPosts = <<>>

MethodOf(name) ==
    CASE name = "get_mailboxes" -> "Mailbox/get"
      [] name = "query_emails" -> "Email/query"
      [] name \in {"get_emails", "get_email"} -> "Email/get"

SendingOperation ==
    /\ mOp.name \in {"get_mailboxes", "query_emails", "get_emails"}
    /\ ~(mOp.name = "get_emails" /\ mOp.ids = <<>>)

GetEmailsOfOne == get_emails(mOp.ids, call(mResps[1]))

\* C29: get_email(id) has sent, once it returned, the one request that
\* get_emails([id]) sends, an Email/get for the list holding just id; it
\* returns the first element of the list get_emails returns, none when
\* that list is empty, and the error of get_emails as it is.
C29_GetEmailIsFirstOfGetEmails ==
    (mOp.name = "get_email" /\ mPc \in {"returned", "done"}) =>
        /\ Len(mOp.ids) = 1
        /\ mPosts = <<RequestOf(MailClient, Operation("get_emails", "", 0, mOp.ids))>>
        /\ mPosts[1].method = "Email/get"
        /\ mPosts[1].ids = <<mOp.ids[1]>>
        /\ Len(mResps) = 1
        /\ GetEmailsOfOne.kind # "Ok" => mResult = GetEmailsOfOne
        /\ (GetEmailsOfOne.kind = "Ok" /\ GetEmailsOfOne.value = <<>>) =>
              mResult = MailOk(None)
        /\ (GetEmailsOfOne.kind = "Ok" /\ GetEmailsOfOne.value # <<>>) =>
              mResult = MailOk(Some(Head(GetEmailsOfOne.value)))

\* C29 witness: get_email for e1 was answered with the list e3, e1, e2 and
\* returned e3, the first element of the server's list.
C29_Witness ==
    /\ mOp.name = "get_email"
    /\ mHandler = "none"
    /\ mOp.ids = <<"e1">>
    /\ mPc = "done"
    /\ GetEmailsOfOne = MailOk(<<E3, E1, E2>>)
    /\ mResult = MailOk(Some(E3))

\* s holds elements of t in the order they have in t.
IsSubsequence(s, t) ==
    \E at \in [1..Len(s) -> 1..Len(t)] :
        /\ \A i \in 1..Len(s) : s[i] = t[at[i]]
        /\ \A i \in 1..Len(s), j \in 1..Len(s) : i < j => at[i] < at[j]

\* handle_emails has rendered what its get_emails returned.
EmailListRendered ==
    /\ mHandler = "handle_emails"
    /\ mOp.name = "get_emails"
    /\ mPc = "done"
    /\ mResult.kind = "Ok"

\* C30: when get_emails returns a list of another length than the ids
\* handle_emails asked for, the missing ids it reports are the requested
\* ids that no returned email carries, each once and in request order; the
\* returned emails are rendered all the same, and with equal counts nothing
\* is reported.
C30_MissingIdsAreRequestedMinusReturned ==
    EmailListRendered =>
        LET requested == {mOp.ids[k] : k \in 1..Len(mOp.ids)}
            got == {mResult.value[k].id : k \in 1..Len(mResult.value)}
        IN  /\ mPage.kind = "email_list"
            /\ mPage.items = mResult.value
            /\ Len(mResult.value) = Len(mOp.ids) => mPage.missing = <<>>
            /\ Len(mResult.value) # Len(mOp.ids) =>
                  /\ {mPage.missing[k] : k \in 1..Len(mPage.missing)} = requested \ got
                  /\ Len(mPage.missing) = Cardinality(requested \ got)
                  /\ IsSubsequence(mPage.missing, mOp.ids)

\* C30 witness: e3, e1, e2 were requested and only e2 came back; e3 and e1
\* are reported missing, in that order, and e2 is rendered.
C30_Witness ==
    /\ EmailListRendered
    /\ mOp.ids = <<"e3", "e1", "e2">>
    /\ mResult.value = <<E2>>
    /\ mPage = Fragment("email_list", <<E2>>, <<"e3", "e1">>)

(***************************************************************************)
(* Claims about the client of an authenticated request.                    *)
(***************************************************************************)
\* C18: discover runs, and GETs are issued, only while a POST /login is
\* handled; a mail handler that goes on to call the mail server has a
\* client built by from_session from the stored session, and its
\* username, password, api_url and account_id are those of the client
\* discover returned when the request's token was handed out.
C18_ClientRebuiltWithoutDiscovery ==
    /\ (dPc # "done" \/ dReqs # <<>>) =>
          /\ wPc \in {"login", "aborted"}
          /\ wReq.method = "POST"
          /\ wReq.path = LoginPath
    /\ wPc = "mail" =>
          /\ wGate = "accepted"
          /\ wClient # None
          /\ wReq.cookie[1] \in DOMAIN wLoginClient
          /\ wClient[1] = wLoginClient[wReq.cookie[1]]
          /\ dReqs = <<>>

\* C18 witness: a login by al discovered the api URL and the account u3; a
\* later request with its token has the same client rebuilt, no discovery
\* running.
C18_Witness ==
    /\ wPc = "mail"
    /\ wHandled >= 2
    /\ dPc = "done"
    /\ wClient = Some(JmapClient(<<"a", "l">>, <<"p", "w">>, ApiUrlA, "u3"))
    /\ wLoginClient[wReq.cookie[1]] = JmapClient(<<"a", "l">>, <<"p", "w">>, ApiUrlA, "u3")

(***************************************************************************)
(* Claims about the routes.                                                *)
(***************************************************************************)
\* C31: a request to a path other than /login and the static file, whose
\* cookie carries no token or one that is not in the store, is answered by
\* the login page when it is an htmx request and by the 303 to /login
\* otherwise; handling it issues no discovery GET, lets no handler go on to
\* the mail server and leaves the store as it is.
C31_UnauthenticatedIsTurnedAway ==
    [][(/\ wHandled' = wHandled + 1
        /\ wReq'.path \notin {LoginPath, StaticPath}
        /\ \/ wReq'.cookie = None
           \/ ~contains_key(sessions, wReq'.cookie[1])) =>
            /\ wResp' = IF wReq'.htmx THEN Page("login_page") ELSE Page("see_other_login")
            /\ wGate' = "rejected"
            /\ wPc' = "accept"
            /\ wClient' = None
            /\ dReqs' = <<>>
            /\ UNCHANGED discoverVars
            /\ UNCHANGED storeVars
            /\ UNCHANGED mailVars
            /\ UNCHANGED <<wLoginTokens, wLoginClient, wLoggedOut>>]_vars

\* C31 witness: after a login and the logout of its token, an htmx request
\* for the mailboxes with that token got the login page, the store being
\* empty.
C31_Witness ==
    /\ wGate = "rejected"
    /\ wReq.path = "/mailboxes"
    /\ wReq.htmx
    /\ wReq.cookie # None
    /\ wReq.cookie[1] \in wLoggedOut
    /\ wResp = Page("login_page")
    /\ sessions = <<>>
    /\ wPc = "accept"

\* The request just taken is a login submission.
LoginSubmitted ==
    /\ wHandled' = wHandled + 1
    /\ wReq'.path = LoginPath
    /\ wReq'.method = "POST"

\* C35: a login submission without a username or without a password, or
\* with either of them empty, is answered at once with the login page and
\* an error: discover is not called, no request goes to the mail server, no
\* token is generated and no session created. A submission with both calls
\* discover with exactly them.
C35_IncompleteLoginIsRefused ==
    [][/\ (/\ LoginSubmitted
           /\ \/ wReq'.username = None \/ wReq'.password = None
              \/ wReq'.username = Some(<<>>) \/ wReq'.password = Some(<<>>)) =>
               /\ wResp' = Page("login_error")
               /\ wPc' = "accept"
               /\ dPc' = "done"
               /\ dReqs' = <<>>
               /\ UNCHANGED discoverVars
               /\ UNCHANGED storeVars
               /\ UNCHANGED <<wLoginTokens, wLoginClient, wLoggedOut>>
       /\ (/\ LoginSubmitted
           /\ wReq'.username # None /\ wReq'.password # None
           /\ wReq'.username # Some(<<>>) /\ wReq'.password # Some(<<>>)) =>
               /\ wPc' = "login"
               /\ dPc' = "idle"
               /\ dUser' = wReq'.username[1]
               /\ dPass' = wReq'.password[1]
               /\ UNCHANGED storeVars]_vars

\* C35 witness: after a login that succeeded, a submission with a username
\* and an empty password got the login page with the error; the store
\* holds just the session of the first login.
C35_Witness ==
    /\ wReq.path = LoginPath
    /\ wReq.method = "POST"
    /\ wReq.username = Some(<<"a", "l">>)
    /\ wReq.password = Some(<<>>)
    /\ wResp = Page("login_error")
    /\ wPc = "accept"
    /\ Cardinality(DOMAIN sessions) = 1
    /\ wLoginTokens = DOMAIN sessions
    /\ dReqs = <<>>

\* C33, in steps: a request is taken only when the one before has been
\* answered and nothing of its handling is left (no discovery in progress,
\* no client in hand); while a request is handled, through every discovery
\* hop and mail call, it stays the request in hand and no other is taken.
C33_LoopStep ==
    /\ wHandled' \in {wHandled, wHandled + 1}
    /\ wHandled' = wHandled + 1 =>
          /\ wPc = "accept"
          /\ DiscoverIdle
          /\ wClient = None
          /\ wHandled > 0 => wResp # NoResponse
    /\ wPc \in {"login", "mail"} =>
          /\ wHandled' = wHandled
          /\ wReq' = wReq
    /\ Len(dReqs') > Len(dReqs) =>
          /\ wPc = "login" /\ wPc' = "login"
          /\ Len(dReqs') = Len(dReqs) + 1
    /\ sessions' # sessions => wReq' = wReq \/ wHandled' = wHandled + 1

\* C33, in states: the request in hand is unanswered exactly while it is
\* being handled, and no store call is ever left in progress: each access
\* to the session store is made, and finished, by the one handler running.
C33_LoopState ==
    /\ wPc \in {"login", "mail"} => (wResp = NoResponse /\ wHandled > 0)
    /\ (wPc = "accept" /\ wHandled > 0) => wResp # NoResponse
    /\ wPc \in {"accept", "mail"} => DiscoverIdle
    /\ lockWriter = None
    /\ lockReaders = {}
    /\ \A th \in Threads : tPc[th] = "idle"

\* C33: main handles the requests one at a time, each to completion,
\* blocking calls included, before the next is taken; so at most one
\* handler is at the session store at any time.
C33_OneRequestAtATime ==
    []C33_LoopState /\ [][C33_LoopStep]_vars

\* C33 witness: the second request, a login, is at its second discovery
\* hop; the first request's login is complete and its session stored, and
\* no third request has been taken.
C33_Witness ==
    /\ wPc = "login"
    /\ wHandled = 2
    /\ Len(dReqs) = 2
    /\ dPc = "fetch"
    /\ wResp = NoResponse
    /\ Cardinality(DOMAIN sessions) = 1

(***************************************************************************)
(* Claims about the handlers run beside other threads.                     *)
(***************************************************************************)
\* The handler's own step: it leaves "routed".
HandlerActs == wPc = "routed" /\ wPc' # "routed"

\* C32, in steps: a mail handler whose token is no longer stored when it
\* calls get_client gets no client, answers with the login redirect and
\* goes to no mail call; one that goes on to the mail server found the
\* token in the store, unlocked for writing, and holds the client made of
\* the record stored under it, which is the record create was given.
C32_HandlerStep ==
    LET session_id == wReq.cookie[1]
        handler == HandlerOf(wReq.method, wReq.path)
    IN  /\ (HandlerActs /\ handler \in MailHandlers
              /\ ~contains_key(sessions, session_id)) =>
              /\ wClient' = None
              /\ wResp' = redirect_to_login(wReq)
              /\ wPc' = "accept"
              /\ UNCHANGED <<wReq, wGate, wHandled, storeVars, mailVars, discoverVars>>
        /\ wPc' = "mail" /\ wPc # "mail" =>
              /\ HandlerActs /\ handler \in MailHandlers
              /\ lockWriter = None
              /\ contains_key(sessions, session_id)
              /\ sessions[session_id] = createdWith[session_id]
              /\ wClient' = Some(Project("client", sessions[session_id]))
              /\ wResp' = NoResponse
        /\ wClient' # wClient => (HandlerActs \/ wPc = "mail")

\* C32, in states: a client is in hand exactly during the mail call, and
\* a request past route's check is unanswered until its handler has run.
C32_HandlerState ==
    /\ wClient # None <=> wPc = "mail"
    /\ wPc = "routed" => (wGate = "accepted" /\ wResp = NoResponse)
    /\ wPc = "mail" =>
          wClient = Some(Project("client", createdWith[wReq.cookie[1]]))

\* C32: when the session is removed between route's exists and the
\* handler's get, the mail handlers obtain no client, answer with the login
\* redirect and call no mail server; no handler uses the credentials of a
\* session that is not in the store when it calls get.
C32_RemovedBeforeGetIsTurnedAway ==
    []C32_HandlerState /\ [][C32_HandlerStep]_vars

\* C32 witness: a request for the email list passed route's check, its
\* session was removed by another thread before the handler's get, and the
\* handler answered with the redirect, with no client.
C32_Witness ==
    /\ wPc = "accept"
    /\ wGate = "accepted"
    /\ HandlerOf(wReq.method, wReq.path) = "handle_emails"
    /\ wReq.cookie[1] \in removeReturned
    /\ wLoggedOut = {}
    /\ wResp = Page("see_other_login")
    /\ wClient = None

\* The tokens whose entry a step may touch: the one of the create or remove
\* that holds the write guard, and the one of the logout being handled.
TokensInHand ==
    (IF lockWriter # None THEN {tCall[lockWriter[1]].id} ELSE {})
    \cup (IF wPc = "routed" /\ HandlerOf(wReq.method, wReq.path) = "handle_logout"
          THEN {wReq.cookie[1]} ELSE {})

\* C34: create and remove change the entry of their own token only, and
\* handle_logout removes the session of the request's token only: in every
\* step each other token of the store stays, with its record unchanged,
\* and none appears; create ends with the store grown by its token, remove
\* and logout with the store less theirs.
C34_OnlyOwnTokenTouched ==
    [][ /\ \A k \in (DOMAIN sessions \cup DOMAIN sessions') \ TokensInHand :
              /\ k \in DOMAIN sessions /\ k \in DOMAIN sessions'
              /\ sessions'[k] = sessions[k]
        /\ \A th \in Threads :
              /\ (tPc[th] = "create_insert_end" /\ tPc'[th] = "ret") =>
                    /\ DOMAIN sessions' = DOMAIN sessions \cup {tCall[th].id}
                    /\ sessions'[tCall[th].id] = tCall[th].session
                    /\ tRet'[th] = Ret(TRUE, <<tCall[th].id>>)
              /\ (tPc[th] = "remove_take_end" /\ tPc'[th] = "ret") =>
                    DOMAIN sessions' = DOMAIN sessions \ {tCall[th].id}
        /\ (HandlerActs /\ HandlerOf(wReq.method, wReq.path) = "handle_logout") =>
              /\ DOMAIN sessions' = DOMAIN sessions \ {wReq.cookie[1]}
              /\ wLoggedOut' = wLoggedOut \cup {wReq.cookie[1]}
              /\ wResp' = HttpResponse("login_page", None, TRUE)
      ]_vars

\* C34 witness: two sessions were created, the second while the first was
\* stored; the second one's logout has been handled and no other remove
\* was made; the first is still stored with the record create was given.
C34_Witness ==
    /\ calls = 2
    /\ returned = Tokens
    /\ \A th \in Threads : tPc[th] = "idle"
    /\ wHandled = 1
    /\ wPc = "accept"
    /\ wLoggedOut = {2}
    /\ wResp.clear_cookie
    /\ DOMAIN sessions = {1}
    /\ sessions[1] = createdWith[1]
====
